---- MODULE Spec2Model ----
(***************************************************************************)
(* Lifecycle model of the wkhtmltopdf wrapper (src/src/lowlevel.rs; the    *)
(* image engine in src/src/image/lowlevel.rs has the same code shape with   *)
(* its own statics).                                                        *)
(*                                                                          *)
(* State: the process-wide statics WKHTMLTOPDF_STATE and                    *)
(* WKHTMLTOPDF_INIT_THREAD, the live PdfGuard values, the conversion jobs   *)
(* (PdfGlobalSettings -> PdfConverter -> PdfOutput) and the                 *)
(* PdfObjectSettings values, each owned by the thread that created it (all  *)
(* of them hold raw pointers or PhantomData<*const ()> and are !Send).      *)
(* History variables (hist, last) record what the claims talk about: which  *)
(* thread initialised first, how many calls were made, and what the last    *)
(* call did; each job and object settings value counts the native calls     *)
(* made on its resources.                                                   *)
(*                                                                          *)
(* convert is modelled twice: as one step (convert), and step by step with  *)
(* the registries FINISHED_CALLBACKS and ERROR_CALLBACKS and the callbacks  *)
(* the native engine fires during wkhtmltopdf_convert (SpecConvert).        *)
(***************************************************************************)
EXTENDS Integers, Sequences, FiniteSets, TLC

\* ------------------------------------------------------------------ bounds
NumThreads == 2      \* threads of the process
MaxInit == 2         \* pdf_init calls in one run
MaxJobs == 2         \* successful PdfGlobalSettings::new calls in one run
MaxObjs == 1         \* PdfObjectSettings::new calls in one run
MaxErrors == 2       \* error callback firings in one conversion
MaxFinished == 2     \* finished callback firings in one conversion
MaxBytes == 2        \* length of the native output buffer
MaxBatch == 2        \* settings held by a builder
MaxBuilders == 2     \* builders alive at a time
MaxCallbacks == 1    \* callbacks fired in a native conversion call (lock steps)
MaxGlobals == 2      \* lib.rs: PdfGlobal handles created in a run

Threads == 1..NumThreads
Jobs == 1..MaxJobs
Objs == 1..MaxObjs
Globals == 1..MaxGlobals
Msgs == {"bad css", "bad font"}
Sep == ", "

VARIABLES
    WKHTMLTOPDF_STATE,        \* "New" | "Ready" | "Busy" | "Dropped"
    WKHTMLTOPDF_INIT_THREAD,  \* 0: lazy static not evaluated yet, else a thread id
    guards,                   \* guards[t]: live PdfGuard values owned by thread t
    jobs,                     \* jobs[j]: the j-th job created by PdfGlobalSettings::new
    objs,                     \* objs[o]: the o-th PdfObjectSettings
    hist,                     \* history of the run
    last,                     \* the last wrapper call and what it did
    FINISHED_CALLBACKS,       \* keys of the finished-handler registry
    ERROR_CALLBACKS,          \* keys of the error-handler registry
    cv,                       \* the convert call in progress, step by step
    builders,                 \* live ImageBuilder values
    locking,                  \* the wrapper's mutexes: owners, threads' lock steps
    WKHTMLTOPDF_GLOBAL_COUNT, \* lib.rs: the global handle count
    pdfGlobals                \* lib.rs: pdfGlobals[h]: the h-th PdfGlobal

convVars == <<FINISHED_CALLBACKS, ERROR_CALLBACKS, cv>>

countVars == <<WKHTMLTOPDF_GLOBAL_COUNT, pdfGlobals>>

vars == <<WKHTMLTOPDF_STATE, WKHTMLTOPDF_INIT_THREAD, guards, jobs, objs, hist, last,
          FINISHED_CALLBACKS, ERROR_CALLBACKS, cv, builders, locking, countVars>>

\* ------------------------------------------------------------ pure helpers

\* A job; the last four fields count the native calls made on its resources:
\* the global settings handed to wkhtmltopdf_create_converter or destroyed, and
\* the converter created or destroyed.
NoJob == [stage |-> "none", thread |-> 0, needs_delete |-> FALSE,
          data |-> << >>, length |-> 0, delivered |-> << >>, end |-> "none",
          gsTransferred |-> 0, gsDestroyed |-> 0,
          convCreated |-> 0, convDestroyed |-> 0]

\* A job whose last object has been destroyed: only how it ended is kept.
Ended(how) == [NoJob EXCEPT !.stage = "dead", !.end = how]

\* The same job with the native calls of one wrapper call counted in.
Count(call, native) == IF call \in native THEN 1 ELSE 0

JobAfter(job, native) ==
    [job EXCEPT
       !.gsTransferred = @ + Count("wkhtmltopdf_create_converter", native),
       !.gsDestroyed = @ + Count("wkhtmltopdf_destroy_global_settings", native),
       !.convCreated = @ + Count("wkhtmltopdf_create_converter", native),
       !.convDestroyed = @ + Count("wkhtmltopdf_destroy_converter", native)]

\* The job after its last object was destroyed by a call making these native
\* calls; needs_delete is kept as the settings value had it when it was dropped.
EndJob(job, how, native) ==
    JobAfter([Ended(how) EXCEPT !.needs_delete = job.needs_delete,
                                !.gsTransferred = job.gsTransferred,
                                !.gsDestroyed = job.gsDestroyed,
                                !.convCreated = job.convCreated,
                                !.convDestroyed = job.convDestroyed], native)

\* A PdfObjectSettings; the last two fields count the native calls made on it:
\* handed to wkhtmltopdf_add_object, or destroyed.
NoObj == [stage |-> "none", thread |-> 0, needs_delete |-> FALSE,
          transferred |-> 0, destroyed |-> 0]

ObjAfter(obj, native) ==
    [obj EXCEPT
       !.transferred = @ + Count("wkhtmltopdf_add_object", native),
       !.destroyed = @ + Count("wkhtmltopdf_destroy_object_settings", native)]

\* The flag of a settings value once the native call that consumes it was made
\* (self.needs_delete = false; pdf_object.needs_delete = false).
NeedsDeleteKept == TRUE

NeedsDeleteAfterTransfer == FALSE

\* Drop for PdfGlobalSettings: the native calls it makes.
DropGlobalSettingsAlways(needs_delete) == {"wkhtmltopdf_destroy_global_settings"}

DropGlobalSettings(needs_delete) ==
    IF needs_delete THEN {"wkhtmltopdf_destroy_global_settings"} ELSE {}

\* Drop for PdfObjectSettings: the native calls it makes.
DropObjectSettings(needs_delete) ==
    IF needs_delete THEN {"wkhtmltopdf_destroy_object_settings"} ELSE {}

DropConverterLeaks(needs_delete) == DropGlobalSettings(needs_delete)

\* Drop for PdfConverter, then for its _global field.
DropConverter(needs_delete) ==
    {"wkhtmltopdf_destroy_converter"} \cup DropGlobalSettings(needs_delete)

Call(op, t, result, pre, native) ==
    [op |-> op, thread |-> t, result |-> result, a |-> 0, b |-> 0,
     pre |-> pre, native |-> native, msg |-> << >>, n |-> 0, job |-> 0]

\* lazy_static: the initialiser runs on the first dereference, on the
\* dereferencing thread; later dereferences read the stored value.
LazyDeref(stored, caller) == IF stored = 0 THEN caller ELSE stored

\* pdf_init: the match on *wk_state.
InitAllowed(state) == state = "New"

StateAfterInitStaysNew(state, success) == state

\* pdf_init: the state after the native init call returned.
StateAfterInit(state, success) == IF success THEN "Ready" ELSE state

StateAfterGuardDropIfDeinitialized(state, success) ==
    IF success THEN "Dropped" ELSE state

\* Drop for PdfGuard: the state after wkhtmltopdf_deinit() returned.
StateAfterGuardDrop(state, success) == "Dropped"

\* Drop for PdfGuard: the native calls it makes.
DropGuard == {"wkhtmltopdf_deinit"}

\* set(name, value) of a settings value: CString::new(..).expect(..) panics on
\* a zero byte before the native call; otherwise the native return value
\* decides between Ok and the failure of this kind of settings.
SetOutcome(nul, accepted, call, failure) ==
    IF nul
    THEN [result |-> "panic: may not contain interior null bytes", native |-> {}]
    ELSE [result |-> IF accepted THEN "Ok" ELSE failure, native |-> {call}]

\* What happens to one setting of a builder when it is applied: the native
\* engine accepts or rejects it, or its name or value holds a zero byte.
Verdicts == {"accepted", "rejected", "nul"}

\* Every setting of the batch is applied; the failure returned is that of the
\* first one that did not go through.
ApplyBatchBestEffort(verdicts) ==
    LET bad == {i \in 1..Len(verdicts) : verdicts[i] # "accepted"}
        first == IF bad = {} THEN 0 ELSE CHOOSE i \in bad : \A k \in bad : i <= k
    IN [calls |-> Cardinality({i \in 1..Len(verdicts) : verdicts[i] # "nul"}),
        failed |-> first,
        result |-> IF first = 0 THEN "Ok"
                   ELSE SetOutcome(verdicts[first] = "nul", FALSE,
                                   "wkhtmltopdf_set_global_setting",
                                   "GlobalSettingFailure").result]

\* ImageBuilder::global_settings: for (name, val) in &self.gs {
\* global.set(name, val)? }. The loop ends at the first setting that does not
\* go through: calls is the number of native set calls made, failed the
\* position of that setting (0: none), result what the loop ends with.
RECURSIVE ApplyBatch(_)
ApplyBatch(verdicts) ==
    IF Len(verdicts) = 0 THEN [calls |-> 0, failed |-> 0, result |-> "Ok"]
    ELSE LET r == SetOutcome(verdicts[1] = "nul", verdicts[1] = "accepted",
                             "wkhtmltopdf_set_global_setting", "GlobalSettingFailure")
         IN IF r.result # "Ok"
            THEN [calls |-> Cardinality(r.native), failed |-> 1, result |-> r.result]
            ELSE LET rest == ApplyBatch(Tail(verdicts))
                 IN [calls |-> rest.calls + 1,
                     failed |-> IF rest.failed = 0 THEN 0 ELSE rest.failed + 1,
                     result |-> rest.result]

\* PdfGlobalSettings::new: the thread check.
ThreadOk(stored, caller) == stored = caller

NewGateBusyProceeds(state) ==
    CASE state = "New" -> "NotInitialized"
      [] state = "Dropped" -> "NotInitialized"
      [] state = "Busy" -> "Ok"
      [] state = "Ready" -> "Ok"

\* PdfGlobalSettings::new: the match on *wk_state.
NewGate(state) ==
    CASE state = "New" -> "NotInitialized"
      [] state = "Dropped" -> "NotInitialized"
      [] state = "Busy" -> "Blocked"
      [] state = "Ready" -> "Ok"

JoinNoSeparator(errs) == errs

\* Vec<String>::join(", "): the messages with the separator between them.
RECURSIVE Join(_)
Join(errs) ==
    IF Len(errs) = 0 THEN << >>
    ELSE IF Len(errs) = 1 THEN <<errs[1]>>
    ELSE <<errs[1], Sep>> \o Join(Tail(errs))

\* The handler sends a failure only when there is a message to send.
OnFinishedOkWithoutErrors(code, errs) ==
    IF code = 1 \/ Len(errs) = 0 THEN [kind |-> "Ok", msg |-> << >>]
    ELSE [kind |-> "ConversionFailed", msg |-> Join(errs)]

\* on_finished: what the finished handler sends on the channel.
OnFinished(code, errs) ==
    IF code = 1 THEN [kind |-> "Ok", msg |-> << >>]
    ELSE [kind |-> "ConversionFailed", msg |-> Join(errs)]

\* PdfConverter::convert: the value convert ends with, given the native
\* return value and the channel content (at most the first finished firing
\* reaches the handler: finished_callback removes the entry it calls).
ConvertResult(ret, fins, errs) ==
    IF ret = 1 THEN [kind |-> "Ok", msg |-> << >>]
    ELSE IF Len(fins) = 0 THEN [kind |-> "panic: sender disconnected", msg |-> << >>]
    ELSE IF OnFinished(fins[1], errs).kind = "Ok"
         THEN [kind |-> "panic: failed without errors", msg |-> << >>]
    ELSE OnFinished(fins[1], errs)

\* The status codes the native engine passes to the finished callback and
\* returns from wkhtmltopdf_convert (1 is success).
Codes == {0, 1}

\* A convert call in progress: where it is (pc), its job, the errors vector
\* shared by the two handlers, the channel content, the native return value;
\* and as history what the native engine fired (firedErrs, fins), how many
\* errors had been fired when finished fired first (errsAtFin), and how many
\* registry entries the call inserted and saw removed; locks is the set of
\* mutexes whose guard the convert call holds.
NoConv == [pc |-> "idle", job |-> 0, errors |-> << >>, chan |-> << >>, ret |-> 0,
           firedErrs |-> << >>, fins |-> << >>, errsAtFin |-> 0,
           inserts |-> 0, removals |-> 0, locks |-> {}]

\* The guards of the insert block live on after it.
LocksKeptAfterInsertBlock(locks) == locks

\* setup_callbacks: the closing brace of the insert block drops the guards of
\* both registries.
LocksAfterInsertBlock(locks) == {}

\* The key of a converter in the registries: self.converter as usize.
Id(j) == j

\* The registry is left as it was.
InsertNothing(registry, id) == registry

\* HashMap::insert on a registry: the handler is stored under the key.
InsertEntry(registry, id) == registry \cup {id}

\* HashMap::remove(&id) on the keys of a registry.
RemoveKeepsEntry(registry, id) == registry

RemoveEntry(registry, id) == registry \ {id}

\* PdfConverter::convert: what the call ends with once the native call has
\* returned ret and the channel holds chan; the sender is gone by then (the
\* handler that owned it was removed from the registry), so recv fails on an
\* empty channel.
ConvertOutcomeFromChannel(ret, chan) ==
    IF Len(chan) = 0 THEN [kind |-> "panic: sender disconnected", msg |-> << >>]
    ELSE chan[1]

ConvertOutcome(ret, chan) ==
    IF ret = 1 THEN [kind |-> "Ok", msg |-> << >>]
    ELSE IF Len(chan) = 0 THEN [kind |-> "panic: sender disconnected", msg |-> << >>]
    ELSE IF chan[1].kind = "Ok"
         THEN [kind |-> "panic: failed without errors", msg |-> << >>]
    ELSE chan[1]

\* rx.recv() with nothing on the channel blocks for as long as a sender is
\* alive; the only sender is owned by the on_finished closure, which lives in
\* the finished registry under the converter's key.
RecvBlocks(chan, registry, id) == Len(chan) = 0 /\ id \in registry

\* The native calls of a convert call up to the return of wkhtmltopdf_convert.
ConvertNative ==
    {"wkhtmltopdf_set_finished_callback", "wkhtmltopdf_set_error_callback",
     "wkhtmltopdf_convert"}

\* The native calls of the success branch of convert: the converter moves into
\* the PdfOutput and is not dropped.
ConvertOkNativeDropsSelf ==
    ConvertNative \cup {"wkhtmltopdf_get_output", "wkhtmltopdf_destroy_converter"}

ConvertOkNative == ConvertNative \cup {"wkhtmltopdf_get_output"}

\* <&[u8] as Read>::read: bytes copied into a buffer of size k.
ReadCount(data, k) == IF k < Len(data) THEN k ELSE Len(data)

\* The slice left unread stays where it was.
AdvanceNothing(data, n) == data

\* <&[u8] as Read>::read: the slice is moved past the n bytes copied.
Advance(data, n) == SubSeq(data, n + 1, Len(data))

SeqsUpTo(S, n) == UNION {[1..k -> S] : k \in 0..n}

Buffer(len) == [i \in 1..len |-> i]

\* A thread is inside a handler while a PdfOutput of its is half dropped or
\* a convert call of its is under way.
Idle(t) ==
    \A j \in Jobs : jobs[j].thread = t => jobs[j].stage \notin {"outdrop", "converting"}

Alive(j) == jobs[j].stage \in {"gs", "conv", "converting", "out", "outdrop"}

NextJob == hist.jobsCreated + 1
NextObj == hist.objsCreated + 1

\* A mutex of the wrapper: the three lazy statics (of = 0) and the errors
\* vector of the convert call running on thread of.
Mutex(name, of) == [name |-> name, of |-> of]

StateMutex == Mutex("WKHTMLTOPDF_STATE", 0)
FinishedMutex == Mutex("FINISHED_CALLBACKS", 0)
ErrorMutex == Mutex("ERROR_CALLBACKS", 0)
ErrorsMutex(t) == Mutex("errors", t)

Mutexes == {StateMutex, FinishedMutex, ErrorMutex} \cup {ErrorsMutex(t) : t \in Threads}

\* A lock step of a thread: lock() on a mutex, the drop of its guard, or the
\* native conversion call, in which up to k callbacks still fire.
Acquire(m) == [op |-> "lock", mutex |-> m, k |-> 0]
Release(m) == [op |-> "unlock", mutex |-> m, k |-> 0]
NativeCall(k) == [op |-> "wkhtmltopdf_convert", mutex |-> StateMutex, k |-> k]

\* pdf_init, PdfGlobalSettings::new, Drop for PdfOutput, Drop for PdfGuard:
\* let mut wk_state = WKHTMLTOPDF_STATE.lock().unwrap(), dropped at the end.
StateSection == <<Acquire(StateMutex), Release(StateMutex)>>

\* setup_callbacks: the insert block locks the finished registry, then the
\* error registry, and drops the guards in reverse order at its end.
SetupCallbacksLocks ==
    <<Acquire(FinishedMutex), Acquire(ErrorMutex),
      Release(ErrorMutex), Release(FinishedMutex)>>

\* The guard of the error registry is kept while the finished registry is
\* locked.
RemoveCallbacksLocksNested ==
    <<Acquire(ErrorMutex), Acquire(FinishedMutex),
      Release(FinishedMutex), Release(ErrorMutex)>>

\* remove_callbacks: each statement locks one registry and drops the guard at
\* its end, the error registry first.
RemoveCallbacksLocks ==
    <<Acquire(ErrorMutex), Release(ErrorMutex),
      Acquire(FinishedMutex), Release(FinishedMutex)>>

\* finished_callback on thread t: the registry is locked for the whole block,
\* and the handler called inside it locks the errors vector.
FinishedCallbackLocks(t) ==
    <<Acquire(FinishedMutex), Acquire(ErrorsMutex(t)),
      Release(ErrorsMutex(t)), Release(FinishedMutex)>>

\* error_callback on thread t: the registry is locked for the whole function,
\* and the handler called inside it locks the errors vector.
ErrorCallbackLocks(t) ==
    <<Acquire(ErrorMutex), Acquire(ErrorsMutex(t)),
      Release(ErrorsMutex(t)), Release(ErrorMutex)>>

\* convert: setup_callbacks, the native call, remove_callbacks.
ConvertLocks ==
    SetupCallbacksLocks \o <<NativeCall(MaxCallbacks)>> \o RemoveCallbacksLocks

\* owner[m]: the thread that holds m (0: free); steps[t]: the lock steps
\* thread t has still to take in the call it is in.
NoLocking ==
    [owner |-> [m \in Mutexes |-> 0],
     steps |-> [t \in Threads |-> << >>]]

\* The mutexes thread t holds.
Held(t) == {m \in Mutexes : locking.owner[m] = t}

\* lib.rs, PdfGlobal::new: the count after the call and the native calls it
\* makes; success is wkhtmltopdf_init(0) == 1.
CountAfterNew(count, success) ==
    [count |-> IF count = 0 /\ success THEN count + 1 ELSE count,
     native |-> (IF count = 0 THEN {"wkhtmltopdf_init"} ELSE {})
                    \cup {"wkhtmltopdf_create_global_settings"}]

\* lib.rs, Drop for PdfGlobal: the count after the drop, the native calls it
\* makes and how it ends; success is wkhtmltopdf_deinit() == 1.
CountAfterDrop(count, success) ==
    IF count = 0
    THEN [count |-> count, native |-> {"wkhtmltopdf_destroy_global_settings"},
          result |-> "panic: unsound attempt to deinit wkhtmlpdf"]
    ELSE IF count = 1
    THEN [count |-> IF success THEN 0 ELSE count,
          native |-> {"wkhtmltopdf_destroy_global_settings", "wkhtmltopdf_deinit"},
          result |-> "Ok"]
    ELSE [count |-> count - 1, native |-> {"wkhtmltopdf_destroy_global_settings"},
          result |-> "Ok"]

\* lib.rs, PdfGlobal::set: how the call ends for a name or value with a zero
\* byte, and for what the native call returns otherwise.
SetCases == {"nul name", "nul value", "rejected", "accepted"}

GlobalSetResult(case) ==
    IF case = "nul name" THEN "Err: encountered null byte in 'name'"
    ELSE IF case = "nul value" THEN "Err: encountered null byte in 'value'"
    ELSE IF case = "rejected" THEN "Err: failed to set"
    ELSE "Ok"

\* The PdfGlobal handles that are alive, on their own or inside a converter.
LiveGlobals == {h \in Globals : pdfGlobals[h] \in {"global", "converter"}}

NextGlobal == Cardinality({h \in Globals : pdfGlobals[h] # "none"}) + 1

\* ------------------------------------------------------------------- Init

Init ==
    /\ WKHTMLTOPDF_STATE = "New"
    /\ WKHTMLTOPDF_INIT_THREAD = 0
    /\ guards = [t \in Threads |-> 0]
    /\ jobs = [j \in Jobs |-> NoJob]
    /\ objs = [o \in Objs |-> NoObj]
    /\ hist = [initThread |-> 0, initCalls |-> 0, guardsDropped |-> 0,
               jobsCreated |-> 0, objsCreated |-> 0, outputsDropped |-> 0,
               nativeInit |-> 0, nativeInitOk |-> 0, nativeDeinit |-> 0]
    /\ last = Call("none", 0, "none", "New", {})
    /\ FINISHED_CALLBACKS = {}
    /\ ERROR_CALLBACKS = {}
    /\ cv = NoConv
    /\ builders = 0
    /\ locking = NoLocking
    /\ WKHTMLTOPDF_GLOBAL_COUNT = 0
    /\ pdfGlobals = [h \in Globals |-> "none"]

\* ---------------------------------------------------------------- actions

\* pdf_init() on thread t; success is what wkhtmltopdf_init(0) == 1 yields.
pdf_init(t, success) ==
    /\ Idle(t)
    /\ hist.initCalls < MaxInit
    /\ IF InitAllowed(WKHTMLTOPDF_STATE)
       THEN /\ WKHTMLTOPDF_STATE' = StateAfterInit(WKHTMLTOPDF_STATE, success)
            /\ WKHTMLTOPDF_INIT_THREAD' =
                   IF success THEN LazyDeref(WKHTMLTOPDF_INIT_THREAD, t)
                   ELSE WKHTMLTOPDF_INIT_THREAD
            /\ guards' = [guards EXCEPT ![t] = @ + 1]
            /\ hist' = [hist EXCEPT
                   !.initCalls = @ + 1,
                   !.nativeInit = @ + 1,
                   !.nativeInitOk = IF success THEN @ + 1 ELSE @,
                   !.initThread = IF success /\ @ = 0 THEN t ELSE @]
            /\ last' = Call("pdf_init", t, "Ok", WKHTMLTOPDF_STATE, {"wkhtmltopdf_init"})
       ELSE /\ success    \* no native call is made: one transition, not two
            /\ hist' = [hist EXCEPT !.initCalls = @ + 1]
            /\ last' = Call("pdf_init", t, "IllegalInit", WKHTMLTOPDF_STATE, {})
            /\ UNCHANGED <<WKHTMLTOPDF_STATE, WKHTMLTOPDF_INIT_THREAD, guards>>
    /\ UNCHANGED <<jobs, objs>>
    /\ UNCHANGED <<convVars, builders, locking, countVars>>

\* PdfGlobalSettings::new() on thread t. The thread check reads only the lazy
\* static, which never changes once it is set, so the check and the critical
\* section on WKHTMLTOPDF_STATE that follows it are one step.
PdfGlobalSettings_new(t) ==
    /\ Idle(t)
    /\ WKHTMLTOPDF_INIT_THREAD' = LazyDeref(WKHTMLTOPDF_INIT_THREAD, t)
    /\ IF ~ThreadOk(WKHTMLTOPDF_INIT_THREAD', t)
       THEN /\ last' = [Call("PdfGlobalSettings::new", t, "ThreadMismatch",
                             WKHTMLTOPDF_STATE, {})
                        EXCEPT !.a = WKHTMLTOPDF_INIT_THREAD', !.b = t]
            /\ UNCHANGED <<WKHTMLTOPDF_STATE, jobs, hist>>
       ELSE IF NewGate(WKHTMLTOPDF_STATE) = "Ok"
       THEN /\ NextJob \in Jobs
            /\ WKHTMLTOPDF_STATE' = "Busy"
            /\ jobs' = [jobs EXCEPT ![NextJob] =
                   [NoJob EXCEPT !.stage = "gs", !.thread = t, !.needs_delete = TRUE]]
            /\ hist' = [hist EXCEPT !.jobsCreated = @ + 1]
            /\ last' = [Call("PdfGlobalSettings::new", t, "Ok", WKHTMLTOPDF_STATE,
                             {"wkhtmltopdf_create_global_settings"})
                        EXCEPT !.job = NextJob]
       ELSE /\ last' = Call("PdfGlobalSettings::new", t, NewGate(WKHTMLTOPDF_STATE),
                            WKHTMLTOPDF_STATE, {})
            /\ UNCHANGED <<WKHTMLTOPDF_STATE, jobs, hist>>
    /\ UNCHANGED <<guards, objs>>
    /\ UNCHANGED <<convVars, builders, locking, countVars>>

\* PdfGlobalSettings::set(name, value); nul says that name or value holds a
\* zero byte, accepted is the native return value.
PdfGlobalSettings_set(j, nul, accepted) ==
    LET r == SetOutcome(nul, accepted, "wkhtmltopdf_set_global_setting",
                        "GlobalSettingFailure") IN
    /\ jobs[j].stage = "gs"
    /\ Idle(jobs[j].thread)
    /\ last' = [Call("PdfGlobalSettings::set", jobs[j].thread, r.result,
                     WKHTMLTOPDF_STATE, r.native)
                EXCEPT !.job = j, !.a = IF nul THEN 1 ELSE 0]
    /\ UNCHANGED <<WKHTMLTOPDF_STATE, WKHTMLTOPDF_INIT_THREAD, guards, jobs, objs, hist>>
    /\ UNCHANGED <<convVars, builders, locking, countVars>>

\* Thread t, in no wrapper call, enters one that locks the state: pdf_init,
\* PdfGlobalSettings::new, or the drop of an output or a guard.
enter_state_section(t) ==
    /\ locking.steps[t] = << >>
    /\ locking' = [locking EXCEPT !.steps[t] = StateSection]
    /\ UNCHANGED <<WKHTMLTOPDF_STATE, WKHTMLTOPDF_INIT_THREAD, guards, jobs, objs, hist,
                   last, convVars, builders, countVars>>

\* Thread t, in no wrapper call, enters convert.
enter_convert(t) ==
    /\ locking.steps[t] = << >>
    /\ locking' = [locking EXCEPT !.steps[t] = ConvertLocks]
    /\ UNCHANGED <<WKHTMLTOPDF_STATE, WKHTMLTOPDF_INIT_THREAD, guards, jobs, objs, hist,
                   last, convVars, builders, countVars>>

\* Mutex::lock by thread t: it goes through when the mutex is free; it waits
\* while another thread holds it, and for ever when t holds it itself.
lock(t) ==
    LET step == Head(locking.steps[t]) IN
    /\ locking.steps[t] # << >>
    /\ step.op = "lock"
    /\ locking.owner[step.mutex] = 0
    /\ locking' = [locking EXCEPT
           !.owner[step.mutex] = t,
           !.steps[t] = Tail(@)]
    /\ UNCHANGED <<WKHTMLTOPDF_STATE, WKHTMLTOPDF_INIT_THREAD, guards, jobs, objs, hist,
                   last, convVars, builders, countVars>>

\* The guard of a mutex is dropped by thread t.
unlock(t) ==
    LET step == Head(locking.steps[t]) IN
    /\ locking.steps[t] # << >>
    /\ step.op = "unlock"
    /\ locking' = [locking EXCEPT
           !.owner[step.mutex] = 0,
           !.steps[t] = Tail(@)]
    /\ UNCHANGED <<WKHTMLTOPDF_STATE, WKHTMLTOPDF_INIT_THREAD, guards, jobs, objs, hist,
                   last, convVars, builders, countVars>>

\* The native engine, inside wkhtmltopdf_convert on thread t, calls the
\* finished thunk (finished) or the error thunk.
native_fires_callback(t, finished) ==
    LET step == Head(locking.steps[t]) IN
    /\ locking.steps[t] # << >>
    /\ step.op = "wkhtmltopdf_convert"
    /\ step.k > 0
    /\ locking' = [locking EXCEPT !.steps[t] =
           (IF finished THEN FinishedCallbackLocks(t) ELSE ErrorCallbackLocks(t))
           \o <<NativeCall(step.k - 1)>> \o Tail(@)]
    /\ UNCHANGED <<WKHTMLTOPDF_STATE, WKHTMLTOPDF_INIT_THREAD, guards, jobs, objs, hist,
                   last, convVars, builders, countVars>>

\* wkhtmltopdf_convert returns on thread t.
native_returns(t) ==
    LET step == Head(locking.steps[t]) IN
    /\ locking.steps[t] # << >>
    /\ step.op = "wkhtmltopdf_convert"
    /\ locking' = [locking EXCEPT !.steps[t] = Tail(@)]
    /\ UNCHANGED <<WKHTMLTOPDF_STATE, WKHTMLTOPDF_INIT_THREAD, guards, jobs, objs, hist,
                   last, convVars, builders, countVars>>

\* lib.rs, PdfGlobal::new(); success is wkhtmltopdf_init(0) == 1 when the call
\* is made.
PdfGlobal_new(success) ==
    LET r == CountAfterNew(WKHTMLTOPDF_GLOBAL_COUNT, success) IN
    /\ NextGlobal \in Globals
    /\ "wkhtmltopdf_init" \notin r.native => success
    /\ WKHTMLTOPDF_GLOBAL_COUNT' = r.count
    /\ pdfGlobals' = [pdfGlobals EXCEPT ![NextGlobal] = "global"]
    /\ last' = [Call("PdfGlobal::new", 0, "Ok", WKHTMLTOPDF_STATE, r.native)
                EXCEPT !.job = NextGlobal, !.a = WKHTMLTOPDF_GLOBAL_COUNT,
                       !.b = Cardinality(LiveGlobals)]
    /\ UNCHANGED <<WKHTMLTOPDF_STATE, WKHTMLTOPDF_INIT_THREAD, guards, jobs, objs, hist,
                   convVars, builders, locking>>

\* lib.rs, PdfGlobal::set(&mut self, name, value).
PdfGlobal_set(h, case) ==
    /\ pdfGlobals[h] = "global"
    /\ last' = [Call("PdfGlobal::set", 0, GlobalSetResult(case), WKHTMLTOPDF_STATE,
                     IF case \in {"rejected", "accepted"}
                     THEN {"wkhtmltopdf_set_global_setting"} ELSE {})
                EXCEPT !.job = h, !.a = WKHTMLTOPDF_GLOBAL_COUNT,
                       !.b = Cardinality(LiveGlobals)]
    /\ UNCHANGED <<WKHTMLTOPDF_STATE, WKHTMLTOPDF_INIT_THREAD, guards, jobs, objs, hist,
                   convVars, builders, locking, countVars>>

\* lib.rs, PdfGlobal::create_converter(self): the handle moves into the
\* converter.
PdfGlobal_create_converter(h) ==
    /\ pdfGlobals[h] = "global"
    /\ pdfGlobals' = [pdfGlobals EXCEPT ![h] = "converter"]
    /\ last' = [Call("PdfGlobal::create_converter", 0, "Ok", WKHTMLTOPDF_STATE,
                     {"wkhtmltopdf_create_converter"})
                EXCEPT !.job = h, !.a = WKHTMLTOPDF_GLOBAL_COUNT,
                       !.b = Cardinality(LiveGlobals)]
    /\ UNCHANGED <<WKHTMLTOPDF_STATE, WKHTMLTOPDF_INIT_THREAD, guards, jobs, objs, hist,
                   convVars, builders, locking, WKHTMLTOPDF_GLOBAL_COUNT>>

\* lib.rs, Drop for PdfGlobal, for a handle on its own or as the _global
\* field of a converter that is dropped (Drop for PdfConverter destroys the
\* converter first); success is wkhtmltopdf_deinit() == 1 when the call is
\* made.
PdfGlobal_drop(h, success) ==
    LET r == CountAfterDrop(WKHTMLTOPDF_GLOBAL_COUNT, success) IN
    /\ h \in LiveGlobals
    /\ "wkhtmltopdf_deinit" \notin r.native => success
    /\ WKHTMLTOPDF_GLOBAL_COUNT' = r.count
    /\ pdfGlobals' = [pdfGlobals EXCEPT ![h] = "dead"]
    /\ last' = [Call("PdfGlobal::drop", 0, r.result, WKHTMLTOPDF_STATE,
                     r.native \cup (IF pdfGlobals[h] = "converter"
                                    THEN {"wkhtmltopdf_destroy_converter"} ELSE {}))
                EXCEPT !.job = h, !.a = WKHTMLTOPDF_GLOBAL_COUNT,
                       !.b = Cardinality(LiveGlobals)]
    /\ UNCHANGED <<WKHTMLTOPDF_STATE, WKHTMLTOPDF_INIT_THREAD, guards, jobs, objs, hist,
                   convVars, builders, locking>>

\* ImageApplication::builder(&self) on thread t, which holds an application
\* object (the guard lives in it): a new builder with no settings. The
\* shared borrow of the application ends when the call returns, and the
\* builder holds no reference to it.
ImageApplication_builder(t) ==
    /\ guards[t] > 0
    /\ Idle(t)
    /\ builders < MaxBuilders
    /\ builders' = builders + 1
    /\ last' = [Call("ImageApplication::builder", t, "Ok", WKHTMLTOPDF_STATE, {})
                EXCEPT !.n = builders + 1]
    /\ UNCHANGED <<WKHTMLTOPDF_STATE, WKHTMLTOPDF_INIT_THREAD, guards, jobs, objs, hist>>
    /\ UNCHANGED <<convVars, locking, countVars>>

\* An ImageBuilder goes out of scope: its map of settings is freed.
ImageBuilder_drop ==
    /\ builders > 0
    /\ builders' = builders - 1
    /\ last' = [Call("ImageBuilder::drop", 0, "Ok", WKHTMLTOPDF_STATE, {})
                EXCEPT !.n = builders - 1]
    /\ UNCHANGED <<WKHTMLTOPDF_STATE, WKHTMLTOPDF_INIT_THREAD, guards, jobs, objs, hist>>
    /\ UNCHANGED <<convVars, locking, countVars>>

\* ImageBuilder::global_settings(&self) on thread t: ImageGlobalSettings::new()
\* and then the settings of the builder applied one after the other;
\* verdicts says what happens to each of them. When one does not go through
\* the settings value is dropped on the way out.
ImageBuilder_global_settings(t, verdicts) ==
    LET r == ApplyBatch(verdicts)
        sets == IF r.calls > 0 THEN {"wkhtmltopdf_set_global_setting"} ELSE {}
        made == [NoJob EXCEPT !.stage = "gs", !.thread = t, !.needs_delete = TRUE]
    IN
    /\ builders > 0
    /\ Idle(t)
    /\ WKHTMLTOPDF_INIT_THREAD' = LazyDeref(WKHTMLTOPDF_INIT_THREAD, t)
    /\ IF ~ThreadOk(WKHTMLTOPDF_INIT_THREAD', t)
       THEN /\ last' = [Call("ImageBuilder::global_settings", t, "ThreadMismatch",
                             WKHTMLTOPDF_STATE, {})
                        EXCEPT !.a = WKHTMLTOPDF_INIT_THREAD', !.b = t, !.msg = verdicts]
            /\ UNCHANGED <<WKHTMLTOPDF_STATE, jobs, hist>>
       ELSE IF NewGate(WKHTMLTOPDF_STATE) = "Ok"
       THEN /\ NextJob \in Jobs
            /\ WKHTMLTOPDF_STATE' = "Busy"
            /\ hist' = [hist EXCEPT !.jobsCreated = @ + 1]
            /\ IF r.result = "Ok"
               THEN /\ jobs' = [jobs EXCEPT ![NextJob] = made]
                    /\ last' = [Call("ImageBuilder::global_settings", t, "Ok",
                                     WKHTMLTOPDF_STATE,
                                     {"wkhtmltopdf_create_global_settings"} \cup sets)
                                EXCEPT !.job = NextJob, !.n = r.calls, !.msg = verdicts]
               ELSE /\ jobs' = [jobs EXCEPT ![NextJob] =
                           EndJob(made, "settings dropped",
                                  DropGlobalSettings(made.needs_delete))]
                    /\ last' = [Call("ImageBuilder::global_settings", t, r.result,
                                     WKHTMLTOPDF_STATE,
                                     {"wkhtmltopdf_create_global_settings"} \cup sets
                                     \cup DropGlobalSettings(made.needs_delete))
                                EXCEPT !.job = NextJob, !.n = r.calls, !.a = r.failed,
                                       !.msg = verdicts]
       ELSE /\ last' = [Call("ImageBuilder::global_settings", t,
                             NewGate(WKHTMLTOPDF_STATE), WKHTMLTOPDF_STATE, {})
                        EXCEPT !.msg = verdicts]
            /\ UNCHANGED <<WKHTMLTOPDF_STATE, jobs, hist>>
    /\ UNCHANGED <<guards, objs>>
    /\ UNCHANGED <<convVars, builders, locking, countVars>>

\* Drop for PdfGlobalSettings that was never turned into a converter.
PdfGlobalSettings_drop(j) ==
    /\ jobs[j].stage = "gs"
    /\ Idle(jobs[j].thread)
    /\ jobs' = [jobs EXCEPT ![j] =
           EndJob(@, "settings dropped", DropGlobalSettings(@.needs_delete))]
    /\ last' = [Call("PdfGlobalSettings::drop", jobs[j].thread, "Ok", WKHTMLTOPDF_STATE,
                     DropGlobalSettings(jobs[j].needs_delete))
                EXCEPT !.job = j]
    /\ UNCHANGED <<WKHTMLTOPDF_STATE, WKHTMLTOPDF_INIT_THREAD, guards, objs, hist>>
    /\ UNCHANGED <<convVars, builders, locking, countVars>>

\* PdfGlobalSettings::create_converter(self).
create_converter(j) ==
    /\ jobs[j].stage = "gs"
    /\ Idle(jobs[j].thread)
    /\ jobs' = [jobs EXCEPT ![j] =
           JobAfter([@ EXCEPT !.stage = "conv",
                              !.needs_delete = NeedsDeleteAfterTransfer],
                    {"wkhtmltopdf_create_converter"})]
    /\ last' = [Call("create_converter", jobs[j].thread, "Ok", WKHTMLTOPDF_STATE,
                     {"wkhtmltopdf_create_converter"})
                EXCEPT !.job = j]
    /\ UNCHANGED <<WKHTMLTOPDF_STATE, WKHTMLTOPDF_INIT_THREAD, guards, objs, hist>>
    /\ UNCHANGED <<convVars, builders, locking, countVars>>

\* ImageGlobalSettings::create_converter_with_html(self, html), the image
\* engine's second way to a converter; nul says that html holds a zero byte, on
\* which CString::new(html).expect(..) panics before the native call and the
\* settings value is dropped as it is.
create_converter_with_html(j, nul) ==
    /\ jobs[j].stage = "gs"
    /\ Idle(jobs[j].thread)
    /\ IF nul
       THEN /\ jobs' = [jobs EXCEPT ![j] =
                   EndJob(@, "panic: html may not contain interior null bytes",
                          DropGlobalSettings(@.needs_delete))]
            /\ last' = [Call("create_converter_with_html", jobs[j].thread,
                             "panic: html may not contain interior null bytes",
                             WKHTMLTOPDF_STATE,
                             DropGlobalSettings(jobs[j].needs_delete))
                        EXCEPT !.job = j]
       ELSE /\ jobs' = [jobs EXCEPT ![j] =
                   JobAfter([@ EXCEPT !.stage = "conv",
                                      !.needs_delete = NeedsDeleteAfterTransfer],
                            {"wkhtmltopdf_create_converter"})]
            /\ last' = [Call("create_converter_with_html", jobs[j].thread, "Ok",
                             WKHTMLTOPDF_STATE, {"wkhtmltopdf_create_converter"})
                        EXCEPT !.job = j]
    /\ UNCHANGED <<WKHTMLTOPDF_STATE, WKHTMLTOPDF_INIT_THREAD, guards, objs, hist>>
    /\ UNCHANGED <<convVars, builders, locking, countVars>>

\* Drop for PdfConverter that was never converted (then its _global field).
PdfConverter_drop(j) ==
    /\ jobs[j].stage = "conv"
    /\ Idle(jobs[j].thread)
    /\ jobs' = [jobs EXCEPT ![j] =
           EndJob(@, "converter dropped", DropConverter(@.needs_delete))]
    /\ last' = [Call("PdfConverter::drop", jobs[j].thread, "Ok", WKHTMLTOPDF_STATE,
                     DropConverter(jobs[j].needs_delete))
                EXCEPT !.job = j]
    /\ UNCHANGED <<WKHTMLTOPDF_STATE, WKHTMLTOPDF_INIT_THREAD, guards, objs, hist>>
    /\ UNCHANGED <<convVars, builders, locking, countVars>>

\* PdfConverter::convert(self): the native call returns ret after firing the
\* error callback with errs and the finished callback with the codes fins.
convert(j, ret, fins, errs, len) ==
    LET r == ConvertResult(ret, fins, errs)
        t == jobs[j].thread
    IN
    /\ jobs[j].stage = "conv"
    /\ Idle(t)
    /\ IF r.kind = "Ok"
       THEN /\ jobs' = [jobs EXCEPT ![j] =
                   JobAfter([@ EXCEPT !.stage = "out", !.data = Buffer(len), !.length = len],
                            ConvertOkNative)]
            /\ last' = [Call("convert", t, "Ok", WKHTMLTOPDF_STATE, ConvertOkNative)
                        EXCEPT !.job = j, !.n = len]
       ELSE /\ len = 0    \* wkhtmltopdf_get_output is not called
            /\ jobs' = [jobs EXCEPT ![j] =
                   EndJob(@, r.kind, DropConverter(@.needs_delete))]
            /\ last' = [Call("convert", t, r.kind, WKHTMLTOPDF_STATE,
                             ConvertNative \cup DropConverter(jobs[j].needs_delete))
                        EXCEPT !.job = j, !.msg = r.msg]
    /\ UNCHANGED <<WKHTMLTOPDF_STATE, WKHTMLTOPDF_INIT_THREAD, guards, objs, hist>>
    /\ UNCHANGED <<convVars, builders, locking, countVars>>

\* ---- PdfConverter::convert(self) step by step

\* The convert call under way belongs to job j and stands at pc.
At(j, pc) == jobs[j].stage = "converting" /\ cv.job = j /\ cv.pc = pc

\* setup_callbacks: finished_callbacks.insert(id, on_finished).
setup_callbacks_insert_finished(j) ==
    /\ jobs[j].stage = "conv"
    /\ Idle(jobs[j].thread)
    /\ cv.pc \in {"idle", "done"}
    /\ jobs' = [jobs EXCEPT ![j].stage = "converting"]
    /\ FINISHED_CALLBACKS' = InsertEntry(FINISHED_CALLBACKS, Id(j))
    /\ cv' = [NoConv EXCEPT !.pc = "finished inserted", !.job = j, !.inserts = 1,
                            !.locks = {"FINISHED_CALLBACKS"}]
    /\ UNCHANGED <<WKHTMLTOPDF_STATE, WKHTMLTOPDF_INIT_THREAD, guards, objs, hist, last,
                   ERROR_CALLBACKS>>
    /\ UNCHANGED <<builders, locking, countVars>>

\* setup_callbacks: error_callbacks.insert(id, on_error).
setup_callbacks_insert_error(j) ==
    /\ At(j, "finished inserted")
    /\ ERROR_CALLBACKS' = InsertEntry(ERROR_CALLBACKS, Id(j))
    /\ cv' = [cv EXCEPT !.pc = "inserted", !.inserts = @ + 1,
                        !.locks = LocksAfterInsertBlock(@ \cup {"ERROR_CALLBACKS"})]
    /\ UNCHANGED <<WKHTMLTOPDF_STATE, WKHTMLTOPDF_INIT_THREAD, guards, jobs, objs, hist,
                   last, FINISHED_CALLBACKS>>
    /\ UNCHANGED <<builders, locking, countVars>>

\* setup_callbacks: wkhtmltopdf_set_finished_callback and
\* wkhtmltopdf_set_error_callback install the two thunks.
setup_callbacks_install(j) ==
    /\ At(j, "inserted")
    /\ cv' = [cv EXCEPT !.pc = "installed"]
    /\ UNCHANGED <<WKHTMLTOPDF_STATE, WKHTMLTOPDF_INIT_THREAD, guards, jobs, objs, hist,
                   last, FINISHED_CALLBACKS, ERROR_CALLBACKS>>
    /\ UNCHANGED <<builders, locking, countVars>>

\* convert: wkhtmltopdf_convert(self.converter) is entered.
wkhtmltopdf_convert_call(j) ==
    /\ At(j, "installed")
    /\ cv' = [cv EXCEPT !.pc = "native"]
    /\ UNCHANGED <<WKHTMLTOPDF_STATE, WKHTMLTOPDF_INIT_THREAD, guards, jobs, objs, hist,
                   last, FINISHED_CALLBACKS, ERROR_CALLBACKS>>
    /\ UNCHANGED <<builders, locking, countVars>>

\* error_callback: the native engine reports msg for the converter; the
\* registered on_error pushes it on the errors vector, without an entry the
\* message is printed.
error_callback(j, msg) ==
    /\ At(j, "native")
    /\ "ERROR_CALLBACKS" \notin cv.locks    \* ERROR_CALLBACKS.lock()
    /\ Len(cv.firedErrs) < MaxErrors
    /\ cv' = [cv EXCEPT
           !.firedErrs = Append(@, msg),
           !.errors = IF Id(j) \in ERROR_CALLBACKS THEN Append(@, msg) ELSE @]
    /\ UNCHANGED <<WKHTMLTOPDF_STATE, WKHTMLTOPDF_INIT_THREAD, guards, jobs, objs, hist,
                   last, FINISHED_CALLBACKS, ERROR_CALLBACKS>>
    /\ UNCHANGED <<builders, locking, countVars>>

\* finished_callback: the native engine reports code for the converter; the
\* entry is removed and the removed on_finished sends its result.
finished_callback(j, code) ==
    /\ At(j, "native")
    /\ "FINISHED_CALLBACKS" \notin cv.locks    \* FINISHED_CALLBACKS.lock()
    /\ Len(cv.fins) < MaxFinished
    /\ FINISHED_CALLBACKS' = RemoveEntry(FINISHED_CALLBACKS, Id(j))
    /\ cv' = [cv EXCEPT
           !.fins = Append(@, code),
           !.errsAtFin = IF Len(cv.fins) = 0 THEN Len(cv.firedErrs) ELSE @,
           !.chan = IF Id(j) \in FINISHED_CALLBACKS
                    THEN Append(@, OnFinished(code, cv.errors)) ELSE @,
           !.removals = IF Id(j) \in FINISHED_CALLBACKS THEN @ + 1 ELSE @]
    /\ UNCHANGED <<WKHTMLTOPDF_STATE, WKHTMLTOPDF_INIT_THREAD, guards, jobs, objs, hist,
                   last, ERROR_CALLBACKS>>
    /\ UNCHANGED <<builders, locking, countVars>>

\* convert: wkhtmltopdf_convert returns ret.
wkhtmltopdf_convert_return(j, ret) ==
    /\ At(j, "native")
    /\ cv' = [cv EXCEPT !.pc = "returned", !.ret = ret]
    /\ UNCHANGED <<WKHTMLTOPDF_STATE, WKHTMLTOPDF_INIT_THREAD, guards, jobs, objs, hist,
                   last, FINISHED_CALLBACKS, ERROR_CALLBACKS>>
    /\ UNCHANGED <<builders, locking, countVars>>

\* remove_callbacks: ERROR_CALLBACKS.lock().unwrap().remove(&id).
remove_callbacks_error(j) ==
    /\ At(j, "returned")
    /\ "ERROR_CALLBACKS" \notin cv.locks
    /\ ERROR_CALLBACKS' = RemoveEntry(ERROR_CALLBACKS, Id(j))
    /\ cv' = [cv EXCEPT !.pc = "error removed",
                        !.removals = IF Id(j) \in ERROR_CALLBACKS THEN @ + 1 ELSE @]
    /\ UNCHANGED <<WKHTMLTOPDF_STATE, WKHTMLTOPDF_INIT_THREAD, guards, jobs, objs, hist,
                   last, FINISHED_CALLBACKS>>
    /\ UNCHANGED <<builders, locking, countVars>>

\* remove_callbacks: FINISHED_CALLBACKS.lock().unwrap().remove(&id).
remove_callbacks_finished(j) ==
    /\ At(j, "error removed")
    /\ "FINISHED_CALLBACKS" \notin cv.locks
    /\ FINISHED_CALLBACKS' = RemoveEntry(FINISHED_CALLBACKS, Id(j))
    /\ cv' = [cv EXCEPT !.pc = "removed",
                        !.removals = IF Id(j) \in FINISHED_CALLBACKS THEN @ + 1 ELSE @]
    /\ UNCHANGED <<WKHTMLTOPDF_STATE, WKHTMLTOPDF_INIT_THREAD, guards, jobs, objs, hist,
                   last, ERROR_CALLBACKS>>
    /\ UNCHANGED <<builders, locking, countVars>>

\* convert: the branch on success; wkhtmltopdf_get_output yields len bytes, or
\* rx.recv() yields what the channel holds and self is dropped.
convert_end(j, len) ==
    LET r == ConvertOutcome(cv.ret, cv.chan)
        t == jobs[j].thread
    IN
    /\ At(j, "removed")
    /\ cv.ret # 1 => ~RecvBlocks(cv.chan, FINISHED_CALLBACKS, Id(j))
    /\ cv' = [cv EXCEPT !.pc = "done"]
    /\ IF r.kind = "Ok"
       THEN /\ jobs' = [jobs EXCEPT ![j] =
                   JobAfter([@ EXCEPT !.stage = "out", !.data = Buffer(len), !.length = len],
                            ConvertOkNative)]
            /\ last' = [Call("convert", t, "Ok", WKHTMLTOPDF_STATE, ConvertOkNative)
                        EXCEPT !.job = j, !.n = len]
       ELSE /\ len = 0    \* wkhtmltopdf_get_output is not called
            /\ jobs' = [jobs EXCEPT ![j] =
                   EndJob(@, r.kind, DropConverter(@.needs_delete))]
            /\ last' = [Call("convert", t, r.kind, WKHTMLTOPDF_STATE,
                             ConvertNative \cup DropConverter(jobs[j].needs_delete))
                        EXCEPT !.job = j, !.msg = r.msg]
    /\ UNCHANGED <<WKHTMLTOPDF_STATE, WKHTMLTOPDF_INIT_THREAD, guards, objs, hist,
                   FINISHED_CALLBACKS, ERROR_CALLBACKS>>
    /\ UNCHANGED <<builders, locking, countVars>>

\* Read for the output: one read into a buffer of size k.
read(j, k) ==
    /\ jobs[j].stage = "out"
    /\ Idle(jobs[j].thread)
    /\ jobs' = [jobs EXCEPT
           ![j].data = Advance(@, ReadCount(@, k)),
           ![j].delivered = @ \o SubSeq(jobs[j].data, 1, ReadCount(jobs[j].data, k))]
    /\ last' = [Call("read", jobs[j].thread, "Ok", WKHTMLTOPDF_STATE, {})
                EXCEPT !.job = j, !.n = ReadCount(jobs[j].data, k),
                       !.a = k, !.b = Len(jobs[j].data)]
    /\ UNCHANGED <<WKHTMLTOPDF_STATE, WKHTMLTOPDF_INIT_THREAD, guards, objs, hist>>
    /\ UNCHANGED <<convVars, builders, locking, countVars>>

\* Drop for PdfOutput, first half: the drop body sets the state.
PdfOutput_drop(j) ==
    /\ jobs[j].stage = "out"
    /\ Idle(jobs[j].thread)
    /\ WKHTMLTOPDF_STATE' = "Ready"
    /\ jobs' = [jobs EXCEPT ![j].stage = "outdrop"]
    /\ hist' = [hist EXCEPT !.outputsDropped = @ + 1]
    /\ last' = [Call("PdfOutput::drop", jobs[j].thread, "Ok", WKHTMLTOPDF_STATE, {})
                EXCEPT !.job = j, !.n = Len(jobs[j].data)]
    /\ UNCHANGED <<WKHTMLTOPDF_INIT_THREAD, guards, objs>>
    /\ UNCHANGED <<convVars, builders, locking, countVars>>

\* Drop for PdfOutput, second half: the fields are dropped, the converter first.
PdfOutput_drop_fields(j) ==
    /\ jobs[j].stage = "outdrop"
    /\ jobs' = [jobs EXCEPT ![j] =
           EndJob(@, "output dropped", DropConverter(@.needs_delete))]
    /\ last' = [Call("PdfOutput::drop fields", jobs[j].thread, "Ok", WKHTMLTOPDF_STATE,
                     DropConverter(jobs[j].needs_delete))
                EXCEPT !.job = j]
    /\ UNCHANGED <<WKHTMLTOPDF_STATE, WKHTMLTOPDF_INIT_THREAD, guards, objs, hist>>
    /\ UNCHANGED <<convVars, builders, locking, countVars>>

\* Drop for PdfGuard on its owning thread; success is wkhtmltopdf_deinit() == 1.
PdfGuard_drop(t, success) ==
    /\ guards[t] > 0
    /\ Idle(t)
    /\ WKHTMLTOPDF_STATE' = StateAfterGuardDrop(WKHTMLTOPDF_STATE, success)
    /\ guards' = [guards EXCEPT ![t] = @ - 1]
    /\ hist' = [hist EXCEPT !.guardsDropped = @ + 1,
                            !.nativeDeinit = @ + Count("wkhtmltopdf_deinit", DropGuard)]
    /\ last' = Call("PdfGuard::drop", t, IF success THEN "Ok" ELSE "warn",
                    WKHTMLTOPDF_STATE, DropGuard)
    /\ UNCHANGED <<WKHTMLTOPDF_INIT_THREAD, jobs, objs>>
    /\ UNCHANGED <<convVars, builders, locking, countVars>>

\* PdfObjectSettings::new() on thread t.
PdfObjectSettings_new(t) ==
    /\ Idle(t)
    /\ NextObj \in Objs
    /\ objs' = [objs EXCEPT ![NextObj] =
           [NoObj EXCEPT !.stage = "alive", !.thread = t, !.needs_delete = TRUE]]
    /\ hist' = [hist EXCEPT !.objsCreated = @ + 1]
    /\ last' = Call("PdfObjectSettings::new", t, "Ok", WKHTMLTOPDF_STATE,
                    {"wkhtmltopdf_create_object_settings"})
    /\ UNCHANGED <<WKHTMLTOPDF_STATE, WKHTMLTOPDF_INIT_THREAD, guards, jobs>>
    /\ UNCHANGED <<convVars, builders, locking, countVars>>

\* PdfObjectSettings::set(name, value); nul says that name or value holds a
\* zero byte, accepted is the native return value.
PdfObjectSettings_set(o, nul, accepted) ==
    LET r == SetOutcome(nul, accepted, "wkhtmltopdf_set_object_setting",
                        "ObjectSettingFailure") IN
    /\ objs[o].stage = "alive"
    /\ Idle(objs[o].thread)
    /\ last' = [Call("PdfObjectSettings::set", objs[o].thread, r.result,
                     WKHTMLTOPDF_STATE, r.native)
                EXCEPT !.a = IF nul THEN 1 ELSE 0, !.b = o]
    /\ UNCHANGED <<WKHTMLTOPDF_STATE, WKHTMLTOPDF_INIT_THREAD, guards, jobs, objs, hist>>
    /\ UNCHANGED <<convVars, builders, locking, countVars>>

\* An object settings value handed to the converter: when the step that comes
\* before the native call panics (panicked), the value is dropped as it is;
\* otherwise wkhtmltopdf_add_object consumes it, the flag is cleared and the
\* value is dropped at the end of the function.
AddObject(obj, panicked, before) ==
    IF panicked
    THEN [native |-> before \cup DropObjectSettings(obj.needs_delete),
          needs_delete |-> obj.needs_delete]
    ELSE [native |-> before \cup {"wkhtmltopdf_add_object"}
                     \cup DropObjectSettings(NeedsDeleteAfterTransfer),
          needs_delete |-> NeedsDeleteAfterTransfer]

\* PdfConverter::add_page_object(&mut self, pdf_object, page); accepted is what
\* the native call behind pdf_object.set("page", page) returns, and the
\* expect on its result panics when it is not.
add_page_object(j, o, accepted) ==
    LET r == AddObject(objs[o], ~accepted, {"wkhtmltopdf_set_object_setting"}) IN
    /\ jobs[j].stage = "conv"
    /\ objs[o].stage = "alive"
    /\ objs[o].thread = jobs[j].thread
    /\ Idle(jobs[j].thread)
    /\ objs' = [objs EXCEPT ![o] =
           ObjAfter([@ EXCEPT !.stage = "dead", !.thread = 0,
                              !.needs_delete = r.needs_delete],
                    r.native)]
    /\ last' = [Call("add_page_object", jobs[j].thread,
                     IF accepted THEN "Ok" ELSE "panic: failed to set page",
                     WKHTMLTOPDF_STATE, r.native)
                EXCEPT !.job = j, !.a = o]
    /\ UNCHANGED <<WKHTMLTOPDF_STATE, WKHTMLTOPDF_INIT_THREAD, guards, jobs, hist>>
    /\ UNCHANGED <<convVars, builders, locking, countVars>>

\* PdfConverter::add_html_object(&mut self, pdf_object, html); nul says that
\* html holds a zero byte, on which CString::new(html).expect(..) panics.
add_html_object(j, o, nul) ==
    LET r == AddObject(objs[o], nul, {}) IN
    /\ jobs[j].stage = "conv"
    /\ objs[o].stage = "alive"
    /\ objs[o].thread = jobs[j].thread
    /\ Idle(jobs[j].thread)
    /\ objs' = [objs EXCEPT ![o] =
           ObjAfter([@ EXCEPT !.stage = "dead", !.thread = 0,
                              !.needs_delete = r.needs_delete],
                    r.native)]
    /\ last' = [Call("add_html_object", jobs[j].thread,
                     IF nul THEN "panic: null byte found" ELSE "Ok",
                     WKHTMLTOPDF_STATE, r.native)
                EXCEPT !.job = j, !.a = o]
    /\ UNCHANGED <<WKHTMLTOPDF_STATE, WKHTMLTOPDF_INIT_THREAD, guards, jobs, hist>>
    /\ UNCHANGED <<convVars, builders, locking, countVars>>

\* Drop for PdfObjectSettings that was never attached.
PdfObjectSettings_drop(o) ==
    /\ objs[o].stage = "alive"
    /\ Idle(objs[o].thread)
    /\ objs' = [objs EXCEPT ![o] =
           ObjAfter([@ EXCEPT !.stage = "dead", !.thread = 0],
                    DropObjectSettings(@.needs_delete))]
    /\ last' = [Call("PdfObjectSettings::drop", objs[o].thread, "Ok", WKHTMLTOPDF_STATE,
                     DropObjectSettings(objs[o].needs_delete))
                EXCEPT !.a = o]
    /\ UNCHANGED <<WKHTMLTOPDF_STATE, WKHTMLTOPDF_INIT_THREAD, guards, jobs, hist>>
    /\ UNCHANGED <<convVars, builders, locking, countVars>>

Next ==
    \/ \E t \in Threads, success \in BOOLEAN : pdf_init(t, success)
    \/ \E t \in Threads : PdfGlobalSettings_new(t)
    \/ \E j \in Jobs, nul, accepted \in BOOLEAN : PdfGlobalSettings_set(j, nul, accepted)
    \/ \E o \in Objs, nul, accepted \in BOOLEAN : PdfObjectSettings_set(o, nul, accepted)
    \/ \E j \in Jobs : PdfGlobalSettings_drop(j)
    \/ \E j \in Jobs : create_converter(j)
    \/ \E j \in Jobs, nul \in BOOLEAN : create_converter_with_html(j, nul)
    \/ \E j \in Jobs : PdfConverter_drop(j)
    \/ \E j \in Jobs, ret \in {0, 1}, fins \in SeqsUpTo({0, 1}, 1),
          errs \in SeqsUpTo(Msgs, MaxErrors), len \in 0..MaxBytes :
          convert(j, ret, fins, errs, len)
    \/ \E j \in Jobs, k \in 0..MaxBytes : read(j, k)
    \/ \E j \in Jobs : PdfOutput_drop(j)
    \/ \E j \in Jobs : PdfOutput_drop_fields(j)
    \/ \E t \in Threads, success \in BOOLEAN : PdfGuard_drop(t, success)
    \/ \E t \in Threads : PdfObjectSettings_new(t)
    \/ \E j \in Jobs, o \in Objs, accepted \in BOOLEAN : add_page_object(j, o, accepted)
    \/ \E j \in Jobs, o \in Objs, nul \in BOOLEAN : add_html_object(j, o, nul)
    \/ \E o \in Objs : PdfObjectSettings_drop(o)

Spec == Init /\ [][Next]_vars

\* The engine lifecycle alone: initialisation, jobs and teardown, without the
\* operations that leave WKHTMLTOPDF_STATE, the guards and the jobs' stages
\* alone (object settings, set, read) and with an empty conversion output.
NextLifecycle ==
    \/ \E t \in Threads, success \in BOOLEAN : pdf_init(t, success)
    \/ \E t \in Threads : PdfGlobalSettings_new(t)
    \/ \E j \in Jobs : PdfGlobalSettings_drop(j)
    \/ \E j \in Jobs : create_converter(j)
    \/ \E j \in Jobs : PdfConverter_drop(j)
    \/ \E j \in Jobs, ret \in {0, 1}, fins \in SeqsUpTo({0, 1}, 1) :
          convert(j, ret, fins, << >>, 0)
    \/ \E j \in Jobs : PdfOutput_drop(j)
    \/ \E j \in Jobs : PdfOutput_drop_fields(j)
    \/ \E t \in Threads, success \in BOOLEAN : PdfGuard_drop(t, success)

SpecLifecycle == Init /\ [][NextLifecycle]_vars

\* The high-level image API: an application object, builders made from it,
\* and build_from_html: the builder's global settings, the converter with the
\* HTML, the conversion, and the output read and dropped.
NextApplication ==
    \/ \E t \in Threads, success \in BOOLEAN : pdf_init(t, success)
    \/ \E t \in Threads : ImageApplication_builder(t)
    \/ ImageBuilder_drop
    \/ \E t \in Threads, verdicts \in SeqsUpTo(Verdicts, 1) :
          ImageBuilder_global_settings(t, verdicts)
    \/ \E j \in Jobs : PdfGlobalSettings_drop(j)
    \/ \E j \in Jobs, nul \in BOOLEAN : create_converter_with_html(j, nul)
    \/ \E j \in Jobs, ret \in {0, 1} : convert(j, ret, <<ret>>, << >>, 0)
    \/ \E j \in Jobs : PdfOutput_drop(j)
    \/ \E j \in Jobs : PdfOutput_drop_fields(j)
    \/ \E t \in Threads, success \in BOOLEAN : PdfGuard_drop(t, success)

SpecApplication == Init /\ [][NextApplication]_vars

\* An application object was made on some thread and a builder from it.
InitSettings ==
    \E t \in Threads :
        /\ WKHTMLTOPDF_STATE = "Ready"
        /\ WKHTMLTOPDF_INIT_THREAD = t
        /\ guards = [u \in Threads |-> IF u = t THEN 1 ELSE 0]
        /\ jobs = [j \in Jobs |-> NoJob]
        /\ objs = [o \in Objs |-> NoObj]
        /\ hist = [initThread |-> t, initCalls |-> 1, guardsDropped |-> 0,
                   jobsCreated |-> 0, objsCreated |-> 0, outputsDropped |-> 0,
                   nativeInit |-> 1, nativeInitOk |-> 1, nativeDeinit |-> 0]
        /\ last = [Call("ImageApplication::builder", t, "Ok", "Ready", {})
                   EXCEPT !.n = 1]
        /\ FINISHED_CALLBACKS = {}
        /\ ERROR_CALLBACKS = {}
        /\ cv = NoConv
        /\ builders = 1
        /\ locking = NoLocking
        /\ WKHTMLTOPDF_GLOBAL_COUNT = 0
        /\ pdfGlobals = [h \in Globals |-> "none"]

\* The global settings of a builder: the settings made and set as the batch
\* of the builder or one more by hand, and dropped.
NextSettings ==
    \/ \E j \in Jobs, nul, accepted \in BOOLEAN : PdfGlobalSettings_set(j, nul, accepted)
    \/ \E t \in Threads, verdicts \in SeqsUpTo(Verdicts, MaxBatch) :
          ImageBuilder_global_settings(t, verdicts)
    \/ \E j \in Jobs : PdfGlobalSettings_drop(j)

SpecSettings == InitSettings /\ [][NextSettings]_vars

\* Ownership of the native settings values: global settings turned into a
\* converter or dropped, object settings handed to a converter or dropped,
\* with the panics of create_converter_with_html, add_page_object and
\* add_html_object; a conversion succeeds or fails with no message (its
\* outcome decides only where the converter is dropped).
NextOwnership ==
    \/ \E t \in Threads, success \in BOOLEAN : pdf_init(t, success)
    \/ \E t \in Threads : PdfGlobalSettings_new(t)
    \/ \E j \in Jobs : PdfGlobalSettings_drop(j)
    \/ \E j \in Jobs : create_converter(j)
    \/ \E j \in Jobs, nul \in BOOLEAN : create_converter_with_html(j, nul)
    \/ \E j \in Jobs : PdfConverter_drop(j)
    \/ \E j \in Jobs, ret \in {0, 1} : convert(j, ret, <<ret>>, << >>, 0)
    \/ \E j \in Jobs : PdfOutput_drop(j)
    \/ \E j \in Jobs : PdfOutput_drop_fields(j)
    \/ \E t \in Threads : PdfObjectSettings_new(t)
    \/ \E j \in Jobs, o \in Objs, accepted \in BOOLEAN : add_page_object(j, o, accepted)
    \/ \E j \in Jobs, o \in Objs, nul \in BOOLEAN : add_html_object(j, o, nul)
    \/ \E o \in Objs : PdfObjectSettings_drop(o)

SpecOwnership == Init /\ [][NextOwnership]_vars

\* The state after pdf_init(), PdfGlobalSettings::new() and
\* create_converter() succeeded in a row on one thread: the engine is
\* initialised and the first job has its converter.
InitConvert ==
    \E t \in Threads :
        /\ WKHTMLTOPDF_STATE = "Busy"
        /\ WKHTMLTOPDF_INIT_THREAD = t
        /\ guards = [u \in Threads |-> IF u = t THEN 1 ELSE 0]
        /\ jobs = [j \in Jobs |->
               IF j = 1
               THEN JobAfter([NoJob EXCEPT !.stage = "conv", !.thread = t,
                                           !.needs_delete = NeedsDeleteAfterTransfer],
                             {"wkhtmltopdf_create_converter"})
               ELSE NoJob]
        /\ objs = [o \in Objs |-> NoObj]
        /\ hist = [initThread |-> t, initCalls |-> 1, guardsDropped |-> 0,
                   jobsCreated |-> 1, objsCreated |-> 0, outputsDropped |-> 0,
                   nativeInit |-> 1, nativeInitOk |-> 1, nativeDeinit |-> 0]
        /\ last = [Call("create_converter", t, "Ok", "Busy",
                        {"wkhtmltopdf_create_converter"}) EXCEPT !.job = 1]
        /\ FINISHED_CALLBACKS = {}
        /\ ERROR_CALLBACKS = {}
        /\ cv = NoConv
        /\ builders = 0
        /\ locking = NoLocking
        /\ WKHTMLTOPDF_GLOBAL_COUNT = 0
        /\ pdfGlobals = [h \in Globals |-> "none"]

\* The conversion step by step, from a converter on: every convert call with
\* the registry insertions, the callbacks the native engine fires, the native
\* return value and the removal of the registry entries; then the output is
\* dropped and the next job is made.
NextConvert ==
    \/ \E t \in Threads : PdfGlobalSettings_new(t)
    \/ \E j \in Jobs : create_converter(j)
    \/ \E j \in Jobs : setup_callbacks_insert_finished(j)
    \/ \E j \in Jobs : setup_callbacks_insert_error(j)
    \/ \E j \in Jobs : setup_callbacks_install(j)
    \/ \E j \in Jobs : wkhtmltopdf_convert_call(j)
    \/ \E j \in Jobs, msg \in Msgs : error_callback(j, msg)
    \/ \E j \in Jobs, code \in Codes : finished_callback(j, code)
    \/ \E j \in Jobs, ret \in Codes : wkhtmltopdf_convert_return(j, ret)
    \/ \E j \in Jobs : remove_callbacks_error(j)
    \/ \E j \in Jobs : remove_callbacks_finished(j)
    \/ \E j \in Jobs, len \in 0..MaxBytes : convert_end(j, len)
    \/ \E j \in Jobs : PdfOutput_drop(j)
    \/ \E j \in Jobs : PdfOutput_drop_fields(j)

SpecConvert == InitConvert /\ [][NextConvert]_vars

\* convert after wkhtmltopdf_convert has returned: straight-line code on the
\* calling thread, which goes on whenever it can.
ConvertAfterReturn ==
    \E j \in Jobs :
        \/ remove_callbacks_error(j)
        \/ remove_callbacks_finished(j)
        \/ \E len \in 0..MaxBytes : convert_end(j, len)

\* One convert call on the converter at hand, step by step, and its output
\* dropped.
NextConvertOnce ==
    \/ \E j \in Jobs : setup_callbacks_insert_finished(j)
    \/ \E j \in Jobs : setup_callbacks_insert_error(j)
    \/ \E j \in Jobs : setup_callbacks_install(j)
    \/ \E j \in Jobs : wkhtmltopdf_convert_call(j)
    \/ \E j \in Jobs, msg \in Msgs : error_callback(j, msg)
    \/ \E j \in Jobs, code \in Codes : finished_callback(j, code)
    \/ \E j \in Jobs, ret \in Codes : wkhtmltopdf_convert_return(j, ret)
    \/ ConvertAfterReturn
    \/ \E j \in Jobs : PdfOutput_drop(j)
    \/ \E j \in Jobs : PdfOutput_drop_fields(j)

SpecConvertLive ==
    InitConvert /\ [][NextConvertOnce]_vars /\ WF_vars(ConvertAfterReturn)

\* ----------------------------------------------------------------- claims

\* Reading the output: conversions that succeed with a buffer of any length,
\* reads into buffers of any size, and the output dropped.
NextRead ==
    \/ \E t \in Threads : PdfGlobalSettings_new(t)
    \/ \E j \in Jobs : create_converter(j)
    \/ \E j \in Jobs, len \in 0..MaxBytes : convert(j, 1, <<1>>, << >>, len)
    \/ \E j \in Jobs, k \in 0..MaxBytes : read(j, k)
    \/ \E j \in Jobs : PdfOutput_drop(j)
    \/ \E j \in Jobs : PdfOutput_drop_fields(j)

SpecRead == InitConvert /\ [][NextRead]_vars

\* examples/lowlevel.rs, main: one thread initialises, makes the global and
\* the object settings and sets values on them, creates the converter, adds
\* the HTML object, converts, copies the output out and lets everything go.
\* The native engine accepts every setting, fires the finished callback with
\* the success status and returns 1 from the conversion call.
main ==
    \/ \E t \in Threads :
          /\ hist.initCalls = 0
          /\ pdf_init(t, TRUE)
    \/ /\ hist.initCalls = 1 /\ hist.jobsCreated = 0
       /\ PdfGlobalSettings_new(hist.initThread)
    \/ /\ hist.objsCreated = 0
       /\ PdfGlobalSettings_set(1, FALSE, TRUE)
    \/ /\ jobs[1].stage = "gs" /\ hist.objsCreated = 0
       /\ PdfObjectSettings_new(hist.initThread)
    \/ /\ jobs[1].stage = "gs"
       /\ PdfObjectSettings_set(1, FALSE, TRUE)
    \/ /\ objs[1].stage = "alive"
       /\ create_converter(1)
    \/ add_html_object(1, 1, FALSE)
    \/ /\ objs[1].transferred = 1
       /\ setup_callbacks_insert_finished(1)
    \/ setup_callbacks_insert_error(1)
    \/ setup_callbacks_install(1)
    \/ wkhtmltopdf_convert_call(1)
    \/ \E msg \in Msgs : error_callback(1, msg)
    \/ /\ cv.fins = << >>
       /\ finished_callback(1, 1)
    \/ /\ cv.fins # << >>
       /\ wkhtmltopdf_convert_return(1, 1)
    \/ remove_callbacks_error(1)
    \/ remove_callbacks_finished(1)
    \/ \E len \in 0..MaxBytes : convert_end(1, len)
    \/ \E k \in 1..MaxBytes : read(1, k)
    \/ PdfOutput_drop(1)
    \/ PdfOutput_drop_fields(1)
    \/ \E success \in BOOLEAN :
          /\ jobs[1].stage = "dead"
          /\ PdfGuard_drop(hist.initThread, success)

\* main is straight-line code: it goes on until it has returned.
SpecMain == Init /\ [][main]_vars /\ WF_vars(main)

\* The mutexes of the wrapper: every thread enters the calls that lock and
\* takes their lock steps one at a time, interleaved with the other threads.
NextLocks ==
    \/ \E t \in Threads : enter_state_section(t)
    \/ \E t \in Threads : enter_convert(t)
    \/ \E t \in Threads : lock(t)
    \/ \E t \in Threads : unlock(t)
    \/ \E t \in Threads, finished \in BOOLEAN : native_fires_callback(t, finished)
    \/ \E t \in Threads : native_returns(t)

SpecLocks == Init /\ [][NextLocks]_vars

\* lib.rs, the counted-handle API: PdfGlobal handles made, set, turned into
\* converters and dropped.
NextCounted ==
    \/ \E success \in BOOLEAN : PdfGlobal_new(success)
    \/ \E h \in Globals, case \in SetCases : PdfGlobal_set(h, case)
    \/ \E h \in Globals : PdfGlobal_create_converter(h)
    \/ \E h \in Globals, success \in BOOLEAN : PdfGlobal_drop(h, success)

SpecCounted == Init /\ [][NextCounted]_vars

\* The thread on which initialisation first succeeded (0: none yet).
InitThread == hist.initThread

IsNew == last.op = "PdfGlobalSettings::new"

\* pdf_init has returned one guard (the case the claims speak of as "the
\* guard"; the runs with a second guard are C1's subject).
OneGuard == hist.nativeInit = 1

\* The guard is alive: one guard was returned and it has not been destroyed.
GuardAlive == OneGuard /\ hist.guardsDropped = 0

\* The native calls of a conversion job (everything but init and deinit).
EngineCalls ==
    {"wkhtmltopdf_create_global_settings", "wkhtmltopdf_create_object_settings",
     "wkhtmltopdf_set_global_setting", "wkhtmltopdf_set_object_setting",
     "wkhtmltopdf_create_converter", "wkhtmltopdf_add_object",
     "wkhtmltopdf_convert", "wkhtmltopdf_get_output"}

\* C1: the first pdf_init call of a run returns a guard and every later
\* pdf_init call returns IllegalInit, whatever happened in between.
C1_SingleInit ==
    last.op = "pdf_init" =>
        IF hist.initCalls = 1 THEN last.result = "Ok"
        ELSE last.result = "IllegalInit"

\* C2: once the guard has been destroyed, the state is Dropped in every later
\* state, and every later PdfGlobalSettings::new that passes the thread check
\* returns NotInitialized.
C2_DroppedForever ==
    (OneGuard /\ hist.guardsDropped > 0) =>
        /\ WKHTMLTOPDF_STATE = "Dropped"
        /\ (IsNew /\ last.result # "ThreadMismatch") => last.result = "NotInitialized"

\* C3: PdfGlobalSettings::new called on the init thread returns NotInitialized
\* in states New and Dropped, Blocked in state Busy, and succeeds only in state
\* Ready, leaving the state Busy.
C3_StateGate ==
    (IsNew /\ InitThread # 0 /\ last.thread = InitThread) =>
        /\ last.pre \in {"New", "Dropped"} => last.result = "NotInitialized"
        /\ last.pre = "Busy" => last.result = "Blocked"
        /\ last.result = "Ok" => last.pre = "Ready" /\ WKHTMLTOPDF_STATE = "Busy"

\* C4: at most one job (global settings, converter or output) is alive at any
\* time, and when a later job has been created every earlier job has ended by
\* the destruction of its PdfOutput.
C4_OneJobAtATime ==
    /\ Cardinality({j \in Jobs : Alive(j)}) <= 1
    /\ \A j, k \in Jobs :
           (j < k /\ jobs[k].stage # "none") =>
               /\ jobs[j].stage = "dead"
               /\ jobs[j].end = "output dropped"

\* C4 witness: a second job has been created after the first one's output
\* was destroyed.
C4_Witness ==
    /\ jobs[1].stage = "dead"
    /\ jobs[1].end = "output dropped"
    /\ Alive(2)
    /\ IsNew /\ last.result = "Ok" /\ last.job = 2

\* C5: while a job that was created earlier still has its settings, converter
\* or output, and the guard is alive, PdfGlobalSettings::new on the init
\* thread returns Blocked.
C5_BlockedWhileBusy ==
    ( /\ IsNew
      /\ InitThread # 0
      /\ last.thread = InitThread
      /\ GuardAlive
      /\ \E j \in Jobs : j # last.job /\ jobs[j].stage \in {"gs", "conv", "out"} )
    => last.result = "Blocked"

\* C6: destroying a PdfOutput leaves the state Ready however many bytes were
\* read, and with the guard alive the next PdfGlobalSettings::new on the init
\* thread, made in state Ready, succeeds.
C6_ReadyAfterOutput ==
    /\ last.op = "PdfOutput::drop" => WKHTMLTOPDF_STATE = "Ready"
    /\ ( /\ IsNew
         /\ InitThread # 0
         /\ last.thread = InitThread
         /\ GuardAlive
         /\ hist.outputsDropped > 0
         /\ last.pre = "Ready" )
       => last.result = "Ok"

\* C7: when convert has returned ConversionFailed and the converter has been
\* destroyed, the state is Ready.
C7_ReadyAfterFailure ==
    (last.op = "convert" /\ last.result = "ConversionFailed") =>
        WKHTMLTOPDF_STATE = "Ready"

\* C8: PdfGlobalSettings::new called from a thread other than the init thread
\* returns ThreadMismatch(init thread, caller), makes no native call and
\* leaves the state unchanged.
C8_ThreadMismatch ==
    (IsNew /\ InitThread # 0 /\ last.thread # InitThread) =>
        /\ last.result = "ThreadMismatch"
        /\ last.a = InitThread
        /\ last.b = last.thread
        /\ last.native = {}
        /\ WKHTMLTOPDF_STATE = last.pre

\* C9: once initialisation has succeeded, the identity the thread check
\* compares with is the thread on which it first succeeded.
C9_InitThreadIdentity ==
    InitThread # 0 => WKHTMLTOPDF_INIT_THREAD = InitThread

\* C10: after initialisation every native call of a job (settings, converter,
\* object, conversion, output) is made on the thread that initialised.
C10_NativeOnInitThread ==
    (InitThread # 0 /\ last.native \cap EngineCalls # {}) =>
        last.thread = InitThread

\* The settings values that exist: the global settings of every job created
\* and every object settings value created.
JobsMade == {j \in Jobs : jobs[j].stage # "none"}
ObjsMade == {o \in Objs : objs[o].stage # "none"}

\* C11: a settings value (global or object) that was handed to the native
\* engine by create_converter, add_page_object or add_html_object is never
\* destroyed by the wrapper: the number of native destroy calls made on a
\* transferred value is zero.
C11_NoDestroyAfterTransfer ==
    /\ \A j \in JobsMade : jobs[j].gsTransferred > 0 => jobs[j].gsDestroyed = 0
    /\ \A o \in ObjsMade : objs[o].transferred > 0 => objs[o].destroyed = 0

\* C11 witness: a job's transferred global settings were dropped with their
\* converter, and an object settings value was dropped after add_page_object
\* or add_html_object handed it over.
C11_Witness ==
    /\ \E j \in Jobs : jobs[j].stage = "dead" /\ jobs[j].gsTransferred = 1
    /\ \E o \in Objs : objs[o].stage = "dead" /\ objs[o].transferred = 1

\* C12: wherever a settings value can be dropped (at the normal end or at a
\* panic of create_converter, create_converter_with_html, add_page_object and
\* add_html_object) needs_delete is false exactly when the native transfer
\* call was made on it, and a value that has been dropped was either
\* destroyed once or transferred once, never both and never neither.
C12_FlagTracksOwnership ==
    /\ \A j \in JobsMade :
           /\ jobs[j].needs_delete <=> jobs[j].gsTransferred = 0
           /\ jobs[j].gsTransferred + jobs[j].gsDestroyed <= 1
           /\ jobs[j].stage = "dead" =>
                  jobs[j].gsTransferred + jobs[j].gsDestroyed = 1
    /\ \A o \in ObjsMade :
           /\ objs[o].needs_delete <=> objs[o].transferred = 0
           /\ objs[o].transferred + objs[o].destroyed <= 1
           /\ objs[o].stage = "dead" =>
                  objs[o].transferred + objs[o].destroyed = 1

\* C12 witness: a panic dropped a settings value that had not been handed
\* over (it was destroyed), after another one was handed over and dropped.
C12_Witness ==
    /\ last.op \in {"add_page_object", "add_html_object", "create_converter_with_html"}
    /\ last.result \notin {"Ok"}
    /\ \/ \E o \in Objs : objs[o].stage = "dead" /\ objs[o].destroyed = 1
       \/ \E j \in Jobs : jobs[j].stage = "dead" /\ jobs[j].gsDestroyed = 1
    /\ \E j \in Jobs : jobs[j].gsTransferred = 1

\* A convert call has just ended: its result is in last, what the native
\* engine did during the call is in cv.
ConvertDone == cv.pc = "done" /\ last.op = "convert" /\ last.job = cv.job

\* The messages m1 .. mN written out with ", " between neighbours.
JoinedWith(msgs) ==
    [i \in 1..(IF Len(msgs) = 0 THEN 0 ELSE 2 * Len(msgs) - 1) |->
        IF i % 2 = 1 THEN msgs[(i + 1) \div 2] ELSE ", "]

\* The native engine fired only error callbacks and then the finished
\* callback, with a failure status.
ErrorsThenFailure ==
    /\ Len(cv.fins) >= 1
    /\ cv.fins[1] # 1
    /\ cv.errsAtFin = Len(cv.firedErrs)

\* The messages the native engine had reported when finished fired first.
ErrorsAtFinished == SubSeq(cv.firedErrs, 1, cv.errsAtFin)

C14_RegistriesClean ==
    /\ \A j \in Jobs :
           jobs[j].stage # "converting" =>
               Id(j) \notin FINISHED_CALLBACKS \cup ERROR_CALLBACKS
    /\ cv.pc = "done" => cv.inserts = cv.removals

\* C14 witness: a convert call ended in a panic although the finished callback
\* never fired, after it had inserted two entries.
C14_Witness ==
    /\ ConvertDone
    /\ Len(cv.fins) = 0
    /\ last.result = "panic: sender disconnected"
    /\ cv.inserts = 2

\* C15 as claimed: the result of convert is the one the finished handler
\* sent, success exactly when the finished callback carried the success code
\* and ConversionFailed(joined) for every other code, whatever the native call
\* returned.
C15_ResultIsWhatHandlerSent ==
    (ConvertDone /\ Len(cv.fins) >= 1) =>
        /\ last.result = "Ok" <=> cv.fins[1] = 1
        /\ cv.fins[1] # 1 =>
               /\ last.result = "ConversionFailed"
               /\ last.msg = JoinedWith(ErrorsAtFinished)

\* C15 amended: the result of convert is decided by the return value of the
\* native call: it is an output exactly when the call returned 1, whatever the
\* finished callback carried; when the call returned another value the result
\* is what the finished handler sent if that is ConversionFailed(joined), and
\* convert panics if the handler sent success or finished never fired.
C15_ResultByReturnValue ==
    ConvertDone =>
        /\ last.result = "Ok" <=> cv.ret = 1
        /\ (cv.ret # 1 /\ Len(cv.fins) >= 1 /\ cv.fins[1] # 1) =>
               /\ last.result = "ConversionFailed"
               /\ last.msg = JoinedWith(ErrorsAtFinished)
        /\ (cv.ret # 1 /\ Len(cv.fins) >= 1 /\ cv.fins[1] = 1) =>
               last.result = "panic: failed without errors"
        /\ (cv.ret # 1 /\ Len(cv.fins) = 0) =>
               last.result = "panic: sender disconnected"

\* C15 witness: the native call returned success after the finished callback
\* carried a failure code, and convert returned an output.
C15_Witness ==
    /\ ConvertDone
    /\ cv.ret = 1
    /\ Len(cv.fins) >= 1 /\ cv.fins[1] # 1
    /\ last.result = "Ok"

C17_ConverterDestroyedOnce ==
    /\ \A j \in JobsMade :
           /\ jobs[j].convCreated <= 1
           /\ jobs[j].convDestroyed <= jobs[j].convCreated
           /\ jobs[j].stage \in {"conv", "converting", "out", "outdrop"} =>
                  (jobs[j].convCreated = 1 /\ jobs[j].convDestroyed = 0)
           /\ jobs[j].stage = "dead" => jobs[j].convDestroyed = jobs[j].convCreated
    /\ last.op = "PdfOutput::drop fields" =>
           /\ "wkhtmltopdf_destroy_converter" \in last.native
           /\ jobs[last.job].convDestroyed = 1

\* C17 witness: an output was destroyed, and with it its converter, once.
C17_Witness ==
    /\ last.op = "PdfOutput::drop fields"
    /\ jobs[last.job].end = "output dropped"
    /\ jobs[last.job].convCreated = 1
    /\ jobs[last.job].convDestroyed = 1

\* C18: destroying a guard calls wkhtmltopdf_deinit once and leaves the state
\* Dropped whether the native call reports success or failure, a failure is
\* only logged, and no other operation sets the state to Dropped.
C18_GuardDrop ==
    /\ last.op = "PdfGuard::drop" =>
           /\ WKHTMLTOPDF_STATE = "Dropped"
           /\ last.native = {"wkhtmltopdf_deinit"}
           /\ last.result \in {"Ok", "warn"}
    /\ hist.nativeDeinit = hist.guardsDropped
    /\ (WKHTMLTOPDF_STATE = "Dropped" /\ last.op # "PdfGuard::drop") =>
           last.pre = "Dropped"

\* C18 witness: a guard was destroyed, wkhtmltopdf_deinit reported failure,
\* and the state is Dropped.
C18_Witness ==
    /\ last.op = "PdfGuard::drop"
    /\ last.result = "warn"
    /\ last.pre # "Dropped"
    /\ WKHTMLTOPDF_STATE = "Dropped"
    /\ hist.nativeDeinit = 1

\* The guards alive in the process.
LiveGuards ==
    Cardinality({p \in Threads \X (1..MaxInit) : p[2] <= guards[p[1]]})

\* C19: at most one guard is alive in the process at any time, whatever the
\* init calls and the outcomes of the native init.
C19_AtMostOneGuard == LiveGuards <= 1

\* C20: when the native init reports failure pdf_init still returns a guard,
\* and a PdfGlobalSettings::new that follows on the thread holding that guard,
\* no initialisation having succeeded, is not rejected with NotInitialized.
C20_FailedInitNotRejected ==
    /\ (last.op = "pdf_init" /\ "wkhtmltopdf_init" \in last.native) =>
           last.result = "Ok"
    /\ (IsNew /\ hist.nativeInitOk = 0 /\ guards[last.thread] > 0) =>
           last.result # "NotInitialized"

\* The results with which a call does not return: it panics.
Panics ==
    {"panic: may not contain interior null bytes", "panic: failed to set page",
     "panic: null byte found", "panic: html may not contain interior null bytes",
     "panic: sender disconnected", "panic: failed without errors"}

IsSet == last.op \in {"PdfGlobalSettings::set", "PdfObjectSettings::set"}

\* C21: a set call on a global or object settings value whose name or value
\* holds a zero byte returns an error value of its own kind to the caller,
\* makes no native call and leaves the state unchanged.
C21_NulIsAnErrorValue ==
    (IsSet /\ last.a = 1) =>
        /\ last.result \notin Panics
        /\ last.result \notin {"Ok", "GlobalSettingFailure", "ObjectSettingFailure"}
        /\ last.native = {}
        /\ WKHTMLTOPDF_STATE = last.pre

IsBatch == last.op = "ImageBuilder::global_settings"

\* The first setting of the batch that the native engine rejected, when every
\* setting before it was accepted (0: there is none).
FirstRejected(verdicts) ==
    LET R == {i \in 1..Len(verdicts) :
                 /\ verdicts[i] = "rejected"
                 /\ \A k \in 1..(i - 1) : verdicts[k] = "accepted"}
    IN IF R = {} THEN 0 ELSE CHOOSE i \in R : TRUE

\* C22: when the settings of a builder are applied and the native engine
\* rejects one of them, no later setting of the batch is applied (the native
\* set calls made are those up to the rejected one) and the call returns
\* GlobalSettingFailure for that first rejected setting.
C22_BatchFailsFast ==
    (IsBatch /\ last.job # 0 /\ FirstRejected(last.msg) # 0) =>
        /\ last.result = "GlobalSettingFailure"
        /\ last.a = FirstRejected(last.msg)
        /\ last.n = FirstRejected(last.msg)

\* C22 witness: the first setting was accepted, the second rejected, and the
\* call returned the failure of the second after two native set calls.
C22_Witness ==
    /\ IsBatch /\ last.job # 0
    /\ Len(last.msg) = 2
    /\ last.msg[1] = "accepted" /\ last.msg[2] = "rejected"
    /\ last.result = "GlobalSettingFailure"
    /\ last.a = 2 /\ last.n = 2

\* C23: the bytes of an output are delivered in order and each once: what
\* has been delivered followed by what is left is the native buffer, so the
\* reads never restart and deliver the native length in all; a read into a
\* buffer of size k returns the smaller of k and the number of bytes left,
\* and 0 once all bytes have been delivered.
C23_ReadsInOrder ==
    /\ \A j \in Jobs : jobs[j].stage = "out" =>
           jobs[j].delivered \o jobs[j].data = Buffer(jobs[j].length)
    /\ last.op = "read" =>
           /\ last.n = (IF last.a < last.b THEN last.a ELSE last.b)
           /\ Len(jobs[last.job].delivered) + Len(jobs[last.job].data)
                  = jobs[last.job].length
           /\ (last.b = 0 => last.n = 0)

\* C23 witness: an output of more than one byte has been delivered whole,
\* and a read into a buffer with room after that returned 0.
C23_Witness ==
    /\ last.op = "read" /\ last.a > 0 /\ last.n = 0
    /\ jobs[last.job].length = MaxBytes
    /\ jobs[last.job].delivered = Buffer(MaxBytes)

\* Every wrapper call made so far was accepted.
Accepted == last.result \in {"none", "Ok"}

\* convert has returned an output that holds the bytes of the native buffer.
Succeeded ==
    /\ last.op = "convert" /\ last.result = "Ok"
    /\ jobs[last.job].stage = "out"
    /\ jobs[last.job].data = Buffer(last.n)

C25_OneBuilderAtATime ==
    (GuardAlive /\ hist.nativeInitOk = 1) => builders <= 1

\* C26: whenever a global settings value, a converter or an output is alive
\* the state is Busy, in whatever order those values and the guard are
\* destroyed (read for the runs in which one guard was made, by a native init
\* that succeeded).
C26_BusyWhileJobAlive ==
    (OneGuard /\ hist.nativeInitOk = 1) =>
        \A j \in Jobs :
            jobs[j].stage \in {"gs", "conv", "converting", "out"} =>
                WKHTMLTOPDF_STATE = "Busy"

\* C27: no settings value, global or object, is created while the state is
\* New (the engine was never initialised): a call made in that state that
\* would create one does not return one and makes no native call.
C27_NoSettingsBeforeInit ==
    ( /\ last.op \in {"PdfGlobalSettings::new", "PdfObjectSettings::new",
                      "ImageBuilder::global_settings"}
      /\ last.pre = "New" )
    => /\ last.result # "Ok"
       /\ last.native = {}

\* The handlers of the job being converted that are in the registries.
FinishedRegistered == Id(cv.job) \in FINISHED_CALLBACKS
ErrorRegistered == Id(cv.job) \in ERROR_CALLBACKS

\* C28 as stated: both handlers of the job are registered from before the
\* thunks are installed until the native conversion call has returned.
C28_RegisteredUntilReturn ==
    cv.pc \in {"inserted", "installed", "native", "returned"} =>
        FinishedRegistered /\ ErrorRegistered

\* C28: both handlers are in the registries before the thunks are installed
\* and before the native conversion is triggered; the error handler stays
\* until the native call has returned, the finished handler until the
\* finished callback first fires or the call returns; after remove_callbacks,
\* on the success and on the failure branch, neither is registered.
C28_HandlersAroundNativeCall ==
    /\ cv.pc \in {"inserted", "installed"} => FinishedRegistered /\ ErrorRegistered
    /\ cv.pc \in {"native", "returned"} =>
           /\ ErrorRegistered
           /\ FinishedRegistered <=> cv.fins = << >>
    /\ cv.pc \in {"removed", "done"} => ~FinishedRegistered /\ ~ErrorRegistered

\* C28 witness: a convert call whose native call fired the finished callback
\* and returned failure has run remove_callbacks.
C28_Witness ==
    /\ cv.pc = "removed" /\ cv.inserts = 2
    /\ cv.ret = 0 /\ Len(cv.fins) > 0
    /\ FINISHED_CALLBACKS = {} /\ ERROR_CALLBACKS = {}

\* A convert call has ended whose native call returned failure and for which
\* the native engine reported no error message.
FailedWithoutMessages ==
    ConvertDone /\ cv.ret # 1 /\ cv.firedErrs = << >>

\* C29 as stated: when the native call reports failure at its return and no
\* error message was accumulated, convert panics and returns no error value.
C29_PanicsWithoutMessages ==
    FailedWithoutMessages => last.result \in Panics

\* C29: when the native call reports failure at its return and no error
\* message was accumulated, convert panics exactly when the finished callback
\* carried the success status or never fired; when it carried a failure
\* status convert returns ConversionFailed with an empty message.
C29_EmptyFailureIsReturned ==
    FailedWithoutMessages =>
        /\ last.result \in Panics <=> (cv.fins = << >> \/ cv.fins[1] = 1)
        /\ (cv.fins # << >> /\ cv.fins[1] # 1) =>
               /\ last.result = "ConversionFailed"
               /\ last.msg = << >>

\* C29 witness: the finished callback carried a failure status, no message
\* was reported, the native call returned failure, and convert returned
\* ConversionFailed with an empty message.
C29_Witness ==
    /\ FailedWithoutMessages
    /\ cv.fins # << >> /\ cv.fins[1] = 0 /\ cv.ret = 0
    /\ last.result = "ConversionFailed" /\ last.msg = << >>

ConverterAlive(j) == jobs[j].convCreated > jobs[j].convDestroyed

\* C31: the state is never Ready while the native converter of a job is
\* still alive: when an output is destroyed the state becomes Ready only
\* after its converter has been destroyed (read for the runs with one guard,
\* made by a native init that succeeded, and still alive).
C31_ReadyAfterConverterDestroyed ==
    (GuardAlive /\ hist.nativeInitOk = 1) =>
        \A j \in Jobs : ConverterAlive(j) => WKHTMLTOPDF_STATE # "Ready"

\* C32: after a successful initialisation, whenever the guard is alive and no
\* global settings value, converter or output is alive, the state is Ready.
C32_ReadyWhenNothingAlive ==
    ( /\ GuardAlive /\ hist.nativeInitOk = 1
      /\ \A j \in Jobs : ~Alive(j) )
    => WKHTMLTOPDF_STATE = "Ready"

\* C33: once the native deinitialisation call has been made no wrapper call
\* makes a native engine call any more, whatever it is and in whatever order
\* the guard and the values made under it are used and destroyed.
C33_NoNativeCallAfterDeinit ==
    (OneGuard /\ hist.nativeDeinit >= 1 /\ last.op # "PdfGuard::drop") =>
        last.native = {}

\* C34: the native deinitialisation is called at most once in a process, and
\* never more often than the native initialisation has reported success.
C34_DeinitAfterInit ==
    /\ hist.nativeDeinit <= 1
    /\ hist.nativeDeinit <= hist.nativeInitOk

\* C35: whenever the native conversion call has returned, convert comes to
\* an end, with a result or a panic: the receive on the channel does not
\* block, whether the finished callback fired once, several times or never.
C35_ConvertTerminates == (cv.pc = "returned") ~> (cv.pc = "done")

\* C35 witness: the native call returned failure without the finished
\* callback ever firing, and convert ended, on the failed receive.
C35_Witness ==
    /\ ConvertDone
    /\ cv.ret # 1 /\ cv.fins = << >>
    /\ last.result = "panic: sender disconnected"

\* Thread t is at a lock() on a mutex that thread u holds.
WaitsFor(t, u) ==
    /\ locking.steps[t] # << >>
    /\ Head(locking.steps[t]).op = "lock"
    /\ locking.owner[Head(locking.steps[t]).mutex] = u

\* The pairs reached from the pairs of R in up to n further steps along R.
RECURSIVE Closure(_, _)
Closure(R, n) ==
    IF n = 0 THEN R
    ELSE LET C == Closure(R, n - 1)
         IN C \cup UNION {{<<p[1], q[2]>> : q \in {r \in R : r[1] = p[2]}} : p \in C}

Waits == {p \in Threads \X Threads : WaitsFor(p[1], p[2])}

\* The pairs <<held, taken>> of a sequence of lock steps taken by a thread
\* that starts out holding held.
RECURSIVE PairsOf(_, _)
PairsOf(steps, held) ==
    IF steps = << >> THEN {}
    ELSE LET step == Head(steps) IN
         IF step.op = "lock"
         THEN {<<h, step.mutex>> : h \in held}
                  \cup PairsOf(Tail(steps), held \cup {step.mutex})
         ELSE IF step.op = "unlock"
         THEN PairsOf(Tail(steps), held \ {step.mutex})
         ELSE PairsOf(Tail(steps), held)

\* The order of the wrapper's mutexes: every pair <<held, taken>> of its
\* calls, the callbacks taken inside the native call of convert.
LockOrder ==
    UNION {PairsOf(steps, {}) :
              steps \in {StateSection}
                  \cup {SetupCallbacksLocks \o FinishedCallbackLocks(t)
                            \o ErrorCallbackLocks(t) \o RemoveCallbacksLocks :
                        t \in Threads}}

\* The pairs <<held, taken>> of the lock() calls the threads are at.
PairsNow ==
    UNION {{<<h, Head(locking.steps[t]).mutex>> : h \in Held(t)} :
              t \in {u \in Threads : /\ locking.steps[u] # << >>
                                     /\ Head(locking.steps[u]).op = "lock"}}

\* C36: no execution deadlocks on the wrapper's mutexes: no thread waits for
\* a mutex it holds itself, no threads wait for each other in a cycle, and
\* every mutex taken while another is held is taken in one order, which has
\* no cycle.
C36_NoLockCycle ==
    /\ \A t \in Threads : ~WaitsFor(t, t)
    /\ \A p \in Closure(Waits, NumThreads) : p[1] # p[2]
    /\ PairsNow \subseteq LockOrder
    /\ \A p \in Closure(LockOrder, Cardinality(Mutexes)) : p[1] # p[2]

\* C36 witness: a thread is in the finished callback, inside the native
\* conversion call, holding the finished registry and the errors vector,
\* while another thread waits for the finished registry.
C36_Witness ==
    \E t, u \in Threads :
        /\ t # u
        /\ Held(t) = {FinishedMutex, ErrorsMutex(t)}
        /\ WaitsFor(u, t)

\* The call just made was refused by the state: pdf_init with IllegalInit,
\* PdfGlobalSettings::new with NotInitialized or Blocked.
RefusedByState ==
    \/ last.op = "pdf_init" /\ last.result = "IllegalInit"
    \/ last.op = "PdfGlobalSettings::new" /\ last.result \in {"NotInitialized", "Blocked"}

\* C37: a pdf_init call that returns IllegalInit and a PdfGlobalSettings::new
\* call that returns NotInitialized or Blocked leave the state, the recorded
\* init thread and both registries as they were and make no native call.
C37_RefusedCallsChangeNothing ==
    [][ RefusedByState' =>
           /\ UNCHANGED <<WKHTMLTOPDF_STATE, WKHTMLTOPDF_INIT_THREAD,
                          FINISHED_CALLBACKS, ERROR_CALLBACKS>>
           /\ last'.native = {} ]_vars

\* C38: in the counted-handle API the global count is the number of live
\* PdfGlobal handles; the native init is called only when no handle is
\* alive, the native deinit only when the last live handle is dropped, and
\* the drop of a handle never reaches the count-0 branch.
C38_CountIsLiveHandles ==
    /\ WKHTMLTOPDF_GLOBAL_COUNT = Cardinality(LiveGlobals)
    /\ (last.op = "PdfGlobal::new" /\ "wkhtmltopdf_init" \in last.native) => last.b = 0
    /\ (last.op = "PdfGlobal::drop" /\ "wkhtmltopdf_deinit" \in last.native) => last.b = 1
    /\ last.result # "panic: unsound attempt to deinit wkhtmlpdf"

\* C39: at most one result is ever sent on the result channel of a convert
\* call: once the finished callback has fired, the converter's entry is gone
\* from FINISHED_CALLBACKS, so a further firing for the same converter sends
\* nothing.
C39_AtMostOneResult ==
    /\ Len(cv.chan) <= 1
    /\ cv.fins # << >> => Id(cv.job) \notin FINISHED_CALLBACKS
    /\ (cv.pc = "native" /\ cv.fins # << >>) => Len(cv.chan) = 1

\* The native engine fired finished twice in one conversion call and one
\* result is in the channel.
C39_Witness ==
    /\ cv.pc = "native"
    /\ Len(cv.fins) = 2
    /\ Len(cv.chan) = 1

====
